---------------------------- MODULE Spec2Model ----------------------------
(***************************************************************************)
(* A model of the aura demo's scoring code: the compliance checks          *)
(* (KYC, AML, fair lending, regulatory, sanctions) and the ComplianceAgent *)
(* that runs them, the CreditRiskAgent with its risk models, and the       *)
(* market service's yield calculation.                                     *)
(*                                                                         *)
(* Numbers that the code divides are exact rationals [n, d] in lowest      *)
(* terms; IEEE rounding is not modelled.  Characters are numbers: 1..26    *)
(* are a..z, 101..126 are A..Z and 0 is the space.                         *)
(***************************************************************************)
EXTENDS Integers, Sequences, FiniteSets, TLC

VARIABLES
    application,      \* the loan application being processed
    watchLists,       \* ComplianceAgent.watchLists
    compAuditTrail,   \* ComplianceAgent.auditTrail
    checkHistory,     \* results of performComplianceCheck, oldest first
    lastCall          \* the latest call of a check function and its outcome

complianceVars == <<application, watchLists, compAuditTrail, checkHistory, lastCall>>

VARIABLES
    fred,             \* what the FRED proxy answers at present
    treasuryResult,   \* the latest result of fetchTreasuryRates
    yieldsResult      \* the latest result of fetchCurrentYields

marketVars == <<fred, treasuryResult, yieldsResult>>

VARIABLES
    loanApplication,  \* the application handed to the CreditRiskAgent
    agentFields,      \* CreditRiskAgent's fields other than models and auditTrail
    models,           \* CreditRiskAgent.models
    auditTrail,       \* CreditRiskAgent.auditTrail, the actions logged
    modelsInit,       \* what the constructor's initializeModels() does next
    predictions,      \* predict calls suspended at `await this.calibrate()`
    returned,         \* per scoring function, the outcomes it has had so far
    riskScores,       \* the scores of the latest calculateComprehensiveRiskScores
    baseScores,       \* the scores object handed to applyStressScenario
    stressResult,     \* the latest call of applyStressScenario
    marketLoad,       \* the loadMarketData in flight and the fetches it started
    calls             \* number of calls made of the agents, the models and the service

riskAgentVars == <<loanApplication, agentFields, models, auditTrail, modelsInit, predictions,
                   returned, riskScores, baseScores, stressResult>>

riskVars == <<riskAgentVars, calls>>

VARIABLES
    portfolioState,   \* AuraDemo's portfolioState
    aiRecommendations,\* AuraDemo's aiRecommendations
    executions,       \* handleAIRecommendation calls waiting for their timer
    panel,            \* AIIntelligencePanel: loading, analysis, calls of the AI engine
    engineCall        \* the latest call of a function of the AI engine and its result

demoVars == <<portfolioState, aiRecommendations, executions, panel>>

appVars == <<demoVars, engineCall>>

vars == <<complianceVars, marketVars, riskVars, marketLoad, appVars>>

(***************************************************************************)
(* Bounds of the model.                                                    *)
(***************************************************************************)
MaxChecks == 2

MaxCalls == 2

MaxRecommendations == 2

MaxAnalyses == 2

(***************************************************************************)
(* Generic helpers.                                                        *)
(***************************************************************************)
Min2(a, b) == IF a <= b THEN a ELSE b

Max2(a, b) == IF a >= b THEN a ELSE b

Abs(a) == IF a < 0 THEN -a ELSE a

RECURSIVE GCD(_, _)
GCD(a, b) == IF b = 0 THEN a ELSE GCD(b, a % b)

\* The rational n/d in lowest terms with a positive denominator.
Rat(n, d) ==
    LET s == IF d < 0 THEN -1 ELSE 1
        g == GCD(Abs(n), Abs(d))
    IN  [n |-> (s * n) \div g, d |-> (s * d) \div g]

RInt(k) == [n |-> k, d |-> 1]

\* JavaScript's NaN, the value of 0/0 and of undefined/n; it is not a
\* rational, every sum or product with it is NaN and every comparison with
\* it is false.
NaN == [n |-> 0, d |-> 0]

IsNaN(x) == x.d = 0

RAdd(x, y) ==
    IF IsNaN(x) \/ IsNaN(y) THEN NaN
    ELSE LET g == GCD(x.d, y.d)
         IN  Rat(x.n * (y.d \div g) + y.n * (x.d \div g), (x.d \div g) * y.d)

RNeg(x) == [n |-> 0 - x.n, d |-> x.d]

RSub(x, y) == RAdd(x, RNeg(y))

RMul(x, y) ==
    IF IsNaN(x) \/ IsNaN(y) THEN NaN
    ELSE LET g1 == GCD(Abs(x.n), y.d)
             g2 == GCD(Abs(y.n), x.d)
         IN  Rat((x.n \div g1) * (y.n \div g2), (x.d \div g2) * (y.d \div g1))

\* x / y for y other than zero.
RDiv(x, y) == RMul(x, Rat(y.d, y.n))

RLe(x, y) == ~IsNaN(x) /\ ~IsNaN(y) /\ x.n * y.d <= y.n * x.d

RLt(x, y) == ~IsNaN(x) /\ ~IsNaN(y) /\ x.n * y.d < y.n * x.d

\* Math.min and Math.max: NaN when either argument is NaN.
RMin(x, y) == IF IsNaN(x) \/ IsNaN(y) THEN NaN ELSE IF RLe(x, y) THEN x ELSE y

RMax(x, y) == IF IsNaN(x) \/ IsNaN(y) THEN NaN ELSE IF RLe(x, y) THEN y ELSE x

RECURSIVE SeqSum(_)
SeqSum(s) == IF s = <<>> THEN 0 ELSE Head(s) + SeqSum(Tail(s))

RECURSIVE SelectSeqBy(_, _)
SelectSeqBy(s, keep) ==
    IF s = <<>> THEN <<>>
    ELSE (IF Head(s) \in keep THEN <<Head(s)>> ELSE <<>>) \o SelectSeqBy(Tail(s), keep)

(***************************************************************************)
(* Outcomes of a call: a returned value or a thrown error.                 *)
(***************************************************************************)
Returned(v) == [thrown |-> FALSE, value |-> v]

Thrown(e) == [thrown |-> TRUE, error |-> e]

\* The receiver / scope a check module runs with: "agent" when the
\* ComplianceAgent's methods are the ones its calls resolve to, "global"
\* when it is invoked as a plain function, as performComplianceCheck does.
Receivers == {"agent", "global"}

(***************************************************************************)
(* screeningUtils: fuzzy name matching and watch-list screening.           *)
(***************************************************************************)
ToLowerCase(str) == [i \in DOMAIN str |-> IF str[i] > 100 THEN str[i] - 100 ELSE str[i]]

\* matrix[i] from matrix[i - 1], filled left to right: cur holds the cells
\* matrix[i][0 .. Len(cur) - 1] computed so far.
RECURSIVE LevenshteinRow(_, _, _, _)
LevenshteinRow(cur, prev, ch, str1) ==
    IF Len(cur) = Len(str1) + 1 THEN cur
    ELSE LET j == Len(cur)
             cell == IF ch = str1[j] THEN prev[j]
                     ELSE Min2(prev[j] + 1, Min2(cur[j] + 1, prev[j + 1] + 1))
         IN  LevenshteinRow(Append(cur, cell), prev, ch, str1)

RECURSIVE LevenshteinRows(_, _, _, _)
LevenshteinRows(prev, i, str1, str2) ==
    IF i > Len(str2) THEN prev
    ELSE LevenshteinRows(LevenshteinRow(<<i>>, prev, str2[i], str1), i + 1, str1, str2)

levenshteinDistance(str1, str2) ==
    LevenshteinRows([j \in 1..(Len(str1) + 1) |-> j - 1], 1, str1, str2)[Len(str1) + 1]

fuzzyMatch(str1, str2) ==
    LET longer  == IF Len(str1) > Len(str2) THEN str1 ELSE str2
        shorter == IF Len(str1) > Len(str2) THEN str2 ELSE str1
    IN  IF Len(longer) = 0 THEN RInt(1)
        ELSE Rat(Len(longer) - levenshteinDistance(longer, shorter), Len(longer))

FullName(personalInfo) ==
    ToLowerCase(personalInfo.firstName \o <<0>> \o personalInfo.lastName)

\* One pass of the loop over the watch list: the entries that match exactly
\* and the entries that only match fuzzily.
IsExactMatch(fullName, entry) == ToLowerCase(entry.name) = fullName

IsFuzzyMatch(fullName, entry) ==
    /\ ~IsExactMatch(fullName, entry)
    /\ RLt(Rat(8, 10), fuzzyMatch(fullName, ToLowerCase(entry.name)))

RECURSIVE ScreenEntries(_, _, _)
ScreenEntries(fullName, watchList, fuzzy) ==
    IF watchList = <<>> THEN <<>>
    ELSE LET entry == Head(watchList)
             hit   == IF fuzzy THEN IsFuzzyMatch(fullName, entry)
                               ELSE IsExactMatch(fullName, entry)
         IN  (IF hit
              THEN <<[type |-> IF fuzzy THEN "FUZZY_MATCH" ELSE "EXACT_MATCH", entry |-> entry]>>
              ELSE <<>>) \o ScreenEntries(fullName, Tail(watchList), fuzzy)

screenAgainstWatchList(personalInfo, watchList) ==
    [matches      |-> ScreenEntries(FullName(personalInfo), watchList, FALSE),
     fuzzyMatches |-> ScreenEntries(FullName(personalInfo), watchList, TRUE)]

(***************************************************************************)
(* amlUtils: transaction pattern analysis.  A transaction is               *)
(* [amount, recent], recent meaning dated within the last thirty days.     *)
(* riskScore is kept in tenths.                                            *)
(***************************************************************************)
StructuringThreshold == 10000

RECURSIVE CountSuspicious(_)
CountSuspicious(transactions) ==
    IF transactions = <<>> THEN 0
    ELSE (IF /\ 10 * Head(transactions).amount > StructuringThreshold * 9
             /\ Head(transactions).amount < StructuringThreshold
          THEN 1 ELSE 0) + CountSuspicious(Tail(transactions))

detectStructuring(transactions) ==
    [detected |-> CountSuspicious(transactions) > 5,
     count    |-> CountSuspicious(transactions)]

RECURSIVE SumAmounts(_, _)
SumAmounts(transactions, recentOnly) ==
    IF transactions = <<>> THEN 0
    ELSE (IF recentOnly => Head(transactions).recent THEN Head(transactions).amount ELSE 0)
         + SumAmounts(Tail(transactions), recentOnly)

calculateRecentVolume(transactions) == SumAmounts(transactions, TRUE)

\* ComplianceAgent.calculateAverageMonthlyVolume: the total over twelve.
calculateAverageMonthlyVolume(transactions) == Rat(SumAmounts(transactions, FALSE), 12)

detectUnusualVolume(transactions) ==
    [detected |-> RLt(RMul(calculateAverageMonthlyVolume(transactions), RInt(3)),
                      RInt(calculateRecentVolume(transactions)))]

analyzeTransactionPatterns(accountHistory) ==
    LET structuring == IF detectStructuring(accountHistory.transactions).detected THEN 3 ELSE 0
        volume      == IF detectUnusualVolume(accountHistory.transactions).detected THEN 2 ELSE 0
        riskScore   == structuring + volume
    IN  [suspicious |-> riskScore > 5,
         flags      |-> (IF structuring > 0 THEN <<"STRUCTURING">> ELSE <<>>)
                        \o (IF volume > 0 THEN <<"UNUSUAL_VOLUME">> ELSE <<>>),
         riskScore  |-> riskScore]

assessGeographicRisk(address) ==
    LET high == address.country \in {"Country1", "Country2"}
    IN  [riskScore |-> IF high THEN 8 ELSE 1,
         country   |-> address.country,
         riskLevel |-> IF high THEN "HIGH" ELSE "LOW"]

(***************************************************************************)
(* compliance/KYCChecks: performKYCCheck.                                  *)
(***************************************************************************)
KycPassThreshold == 75

KycConditionalThreshold == 50

\* Strict comparisons with the thresholds.
KycStatusStrict(score) ==
    IF score > KycPassThreshold THEN "PASS"
    ELSE IF score > KycConditionalThreshold THEN "CONDITIONAL"
    ELSE "FAIL"

KycStatus(score) ==
    IF score >= KycPassThreshold THEN "PASS"
    ELSE IF score >= KycConditionalThreshold THEN "CONDITIONAL"
    ELSE "FAIL"

\* The four verifications, in the order the code makes them: the condition,
\* the requirement pushed when it holds and the issue pushed when it fails.
KycVerifications(app) ==
    << [holds |-> app.personalInfo.ssn,
        requirement |-> "SSN_VERIFIED", issue |-> "Missing SSN"],
       [holds |-> app.personalInfo.address # <<>> /\ app.personalInfo.addressVerified,
        requirement |-> "ADDRESS_VERIFIED", issue |-> "Address not verified"],
       [holds |-> app.incomeVerified /\ app.incomeDocuments,
        requirement |-> "INCOME_VERIFIED", issue |-> "Income documentation incomplete"],
       [holds |-> app.employmentVerified,
        requirement |-> "EMPLOYMENT_VERIFIED", issue |-> "Employment not verified"] >>

KycPoints(verification) == IF verification.holds THEN 25 ELSE 0

RECURSIVE KycFold(_, _)
KycFold(verifications, kyc) ==
    IF verifications = <<>> THEN kyc
    ELSE LET v == Head(verifications)
         IN  KycFold(Tail(verifications),
                 IF v.holds
                 THEN [kyc EXCEPT !.score = @ + KycPoints(v),
                                  !.requirements = Append(@, v.requirement)]
                 ELSE [kyc EXCEPT !.score = @ + KycPoints(v),
                                  !.issues = Append(@, v.issue)])

KycWithStatus(kyc) == [kyc EXCEPT !.status = KycStatus(kyc.score)]

performKYCCheck(app) ==
    KycWithStatus(KycFold(KycVerifications(app),
                      [status |-> "PENDING", score |-> 0, requirements |-> <<>>,
                       documents |-> <<>>, issues |-> <<>>]))

(***************************************************************************)
(* compliance/AMLScreening: performAMLCheck.                               *)
(***************************************************************************)
\* A status that forgets the manual review.
AmlStatusNoReview(aml) ==
    IF \E i \in DOMAIN aml.flags : aml.flags[i] = "SANCTIONS_MATCH" THEN "FAIL" ELSE "PASS"

AmlStatus(aml) ==
    IF \E i \in DOMAIN aml.flags : aml.flags[i] = "SANCTIONS_MATCH" THEN "FAIL"
    ELSE IF aml.requiresManualReview THEN "REVIEW_REQUIRED"
    ELSE "PASS"

AmlEvaluate(screeningResults) ==
    LET sanctionsHit == Len(screeningResults.sanctions.matches) > 0
        pepHit       == Len(screeningResults.pep.matches) > 0
        suspicious   == /\ screeningResults.transactionPattern # <<>>
                        /\ screeningResults.transactionPattern[1].suspicious
    IN  [status |-> "PENDING",
         riskLevel |-> IF pepHit THEN "MEDIUM" ELSE IF sanctionsHit THEN "HIGH" ELSE "LOW",
         flags |-> (IF sanctionsHit THEN <<"SANCTIONS_MATCH">> ELSE <<>>)
                   \o (IF pepHit THEN <<"PEP_MATCH">> ELSE <<>>)
                   \o (IF suspicious THEN <<"SUSPICIOUS_PATTERN">> ELSE <<>>),
         screeningResults |-> screeningResults,
         requiresManualReview |-> sanctionsHit \/ pepHit \/ suspicious]

AmlWithStatus(aml) == [aml EXCEPT !.status = AmlStatus(aml)]

performAMLCheck(self, app, lists) ==
    IF app.accountHistory # <<>> /\ self # "agent"
    THEN Thrown("ReferenceError")   \* calculateAverageMonthlyVolume is a method of the agent
    ELSE IF app.personalInfo.address = <<>>
    THEN Thrown("TypeError")        \* address.country of an absent address
    ELSE Returned(AmlWithStatus(AmlEvaluate(
             [sanctions |-> screenAgainstWatchList(app.personalInfo, lists.sanctions),
              pep |-> screenAgainstWatchList(app.personalInfo, lists.pep),
              transactionPattern |->
                  IF app.accountHistory # <<>>
                  THEN <<analyzeTransactionPatterns(app.accountHistory[1])>>
                  ELSE <<>>,
              geographic |-> assessGeographicRisk(app.personalInfo.address[1])])))

(***************************************************************************)
(* ComplianceAgent methods the check modules call.                         *)
(***************************************************************************)
identifyProtectedClasses(demographics) ==
    (IF demographics.race THEN <<"RACE">> ELSE <<>>)
    \o (IF demographics.gender THEN <<"GENDER">> ELSE <<>>)
    \o (IF demographics.age # 0 /\ demographics.age >= 40 THEN <<"AGE">> ELSE <<>>)
    \o (IF demographics.maritalStatus THEN <<"MARITAL_STATUS">> ELSE <<>>)

analyzDecisionConsistency(app, riskAssessment) ==
    [consistent |-> TRUE, variance |-> Rat(5, 100), comparable_cases |-> 150]

\* A bias assessment that looks at the protected classes.
assessBiasRiskByClass(app, riskAssessment) ==
    IF app.demographics # <<>> /\ app.demographics[1].race THEN "HIGH" ELSE "LOW"

assessBiasRisk(app, riskAssessment) == "LOW"

checkBaselCompliance(app, riskAssessment) ==
    [status |-> "COMPLIANT", issues |-> <<>>]

checkDoddFrankCompliance(app) ==
    [status |-> "COMPLIANT", issues |-> <<>>]

checkLendingRegulations(app) ==
    [status |-> "COMPLIANT", issues |-> <<>>]

screenAgainstSanctionsList(personalInfo, listName) == <<>>

(***************************************************************************)
(* compliance/FairLending: performFairLendingCheck.                        *)
(***************************************************************************)
FairLendingStatus(biasRisk) == IF biasRisk = "HIGH" THEN "REVIEW_REQUIRED" ELSE "PASS"

performFairLendingCheck(self, app, riskAssessment) ==
    IF self # "agent"
    THEN Thrown("TypeError")   \* this.identifyProtectedClasses / this.assessBiasRisk
    ELSE LET biasRisk == assessBiasRisk(app, riskAssessment)
         IN  Returned(
               [status |-> FairLendingStatus(biasRisk),
                protectedClasses |->
                    IF app.demographics # <<>>
                    THEN identifyProtectedClasses(app.demographics[1])
                    ELSE <<>>,
                disparateImpact |-> FALSE,
                biasRisk |-> biasRisk,
                decisionConsistency |->
                    IF riskAssessment # <<>>
                    THEN <<analyzDecisionConsistency(app, riskAssessment)>>
                    ELSE <<>>,
                recommendations |->
                    IF biasRisk = "HIGH"
                    THEN <<"Require additional review", "Document decision rationale">>
                    ELSE <<>>])

(***************************************************************************)
(* compliance/RegulatoryCheck: performRegulatoryCheck.                     *)
(***************************************************************************)
performRegulatoryCheck(self, app, riskAssessment) ==
    IF self # "agent"
    THEN Thrown("TypeError")   \* this.checkBaselCompliance
    ELSE LET frameworks == [BASEL_III |-> checkBaselCompliance(app, riskAssessment),
                            DODD_FRANK |-> checkDoddFrankCompliance(app),
                            LENDING_REGS |-> checkLendingRegulations(app)]
             statuses == {frameworks[f].status : f \in DOMAIN frameworks}
         IN  Returned(
               [status |-> IF "VIOLATION" \in statuses THEN "VIOLATION"
                           ELSE IF "WARNING" \in statuses THEN "WARNING"
                           ELSE "COMPLIANT",
                frameworks |-> frameworks,
                violations |-> <<>>,
                requirements |-> <<>>])

(***************************************************************************)
(* compliance/SanctionsScreening: performSanctionsCheck.                   *)
(***************************************************************************)
SanctionsLists == <<"OFAC", "UN", "EU", "UK">>

RECURSIVE SanctionsMatches(_, _)
SanctionsMatches(personalInfo, lists) ==
    IF lists = <<>> THEN <<>>
    ELSE screenAgainstSanctionsList(personalInfo, Head(lists))
         \o SanctionsMatches(personalInfo, Tail(lists))

performSanctionsCheck(self, app, lists) ==
    IF self # "agent"
    THEN Thrown("ReferenceError")   \* screenAgainstSanctionsList is a method of the agent
    ELSE LET matches == SanctionsMatches(app.personalInfo, SanctionsLists)
         IN  Returned(
               [status |-> IF Len(matches) > 0 THEN "REVIEW_REQUIRED" ELSE "CLEAR",
                lists |-> SanctionsLists,
                matches |-> matches,
                falsePositives |-> <<>>,
                requiresReview |-> Len(matches) > 0])

(***************************************************************************)
(* ComplianceAgent: evaluation of the five checks.                         *)
(***************************************************************************)
CheckTypes == <<"kyc", "aml", "fairLending", "regulatory", "sanctions">>

\* The review test made before the failure test.
evaluateOverallComplianceReviewFirst(checks) ==
    LET statuses == {checks[c].status : c \in DOMAIN checks}
    IN  IF "REVIEW_REQUIRED" \in statuses \/ "WARNING" \in statuses THEN "REVIEW_REQUIRED"
        ELSE IF "FAIL" \in statuses \/ "VIOLATION" \in statuses THEN "NON_COMPLIANT"
        ELSE "COMPLIANT"

evaluateOverallCompliance(checks) ==
    LET statuses == {checks[c].status : c \in DOMAIN checks}
    IN  IF "FAIL" \in statuses \/ "VIOLATION" \in statuses THEN "NON_COMPLIANT"
        ELSE IF "REVIEW_REQUIRED" \in statuses \/ "WARNING" \in statuses THEN "REVIEW_REQUIRED"
        ELSE "COMPLIANT"

RECURSIVE ViolationsOf(_, _)
ViolationsOf(checks, types) ==
    IF types = <<>> THEN <<>>
    ELSE (IF checks[Head(types)].status \in {"FAIL", "VIOLATION"}
          THEN <<[type |-> Head(types), severity |-> "HIGH"]>>
          ELSE <<>>) \o ViolationsOf(checks, Tail(types))

identifyViolations(checks) == ViolationsOf(checks, CheckTypes)

generateComplianceRecommendations(overallStatus) ==
    IF overallStatus = "NON_COMPLIANT"
    THEN <<[priority |-> "HIGH", action |-> "REJECT_APPLICATION"]>>
    ELSE IF overallStatus = "REVIEW_REQUIRED"
    THEN <<[priority |-> "MEDIUM", action |-> "MANUAL_REVIEW"]>>
    ELSE <<>>

\* The five checks in the order performComplianceCheck awaits them; the
\* first one that throws rejects the whole check.
CollectChecks(kyc, aml, fairLending, regulatory, sanctions) ==
    IF aml.thrown THEN aml
    ELSE IF fairLending.thrown THEN fairLending
    ELSE IF regulatory.thrown THEN regulatory
    ELSE IF sanctions.thrown THEN sanctions
    ELSE Returned([kyc |-> kyc,
                   aml |-> aml.value,
                   fairLending |-> fairLending.value,
                   regulatory |-> regulatory.value,
                   sanctions |-> sanctions.value])

RunChecks(self, app, riskAssessment, lists) ==
    CollectChecks(performKYCCheck(app),
                  performAMLCheck(self, app, lists),
                  performFairLendingCheck(self, app, riskAssessment),
                  performRegulatoryCheck(self, app, riskAssessment),
                  performSanctionsCheck(self, app, lists))

ComplianceCheckRecord(app, checks, overallStatus) ==
    [applicationId |-> app.id,
     checks |-> checks,
     overallStatus |-> overallStatus,
     violations |-> identifyViolations(checks),
     recommendations |-> generateComplianceRecommendations(overallStatus)]

EvaluateChecks(app, checks) ==
    IF checks.thrown THEN checks
    ELSE Returned(ComplianceCheckRecord(app, checks.value,
                                        evaluateOverallCompliance(checks.value)))

performComplianceCheckResult(self, app, riskAssessment, lists) ==
    EvaluateChecks(app, RunChecks(self, app, riskAssessment, lists))

(***************************************************************************)
(* Inputs of the compliance checks: applicants, watch lists, applications. *)
(***************************************************************************)
Persons ==
    << [firstName |-> <<101, 2>>, lastName |-> <<103, 4, 5>>],     \* "Ab Cde"
       [firstName |-> <<1, 2>>,   lastName |-> <<3, 4, 6>>],       \* "ab cdf"
       [firstName |-> <<24, 25>>, lastName |-> <<26, 23>>] >>      \* "xy zw"

SampleWatchLists ==
    [pep       |-> << [name |-> <<1, 2, 0, 3, 4, 6>>],             \* "ab cdf"
                      [name |-> <<17, 0, 18>>] >>,                 \* "q r"
     sanctions |-> << [name |-> <<101, 102, 0, 103, 104, 105>>] >>, \* "AB CDE"
     adverse   |-> <<>>]

\* loadWatchlist returns [] for a file it cannot read.
EmptyWatchLists == [pep |-> <<>>, sanctions |-> <<>>, adverse |-> <<>>]

Addresses ==
    { <<>>, <<[country |-> "US", state |-> "CA"]>>, <<[country |-> "Country1", state |-> "XX"]>> }

Demographics ==
    { <<>>,
      <<[race |-> FALSE, gender |-> FALSE, age |-> 39, maritalStatus |-> FALSE]>>,
      <<[race |-> TRUE, gender |-> TRUE, age |-> 40, maritalStatus |-> TRUE]>> }

Transaction(amount, recent) == [amount |-> amount, recent |-> recent]

AccountHistories ==
    { <<>>,
      <<[transactions |-> <<Transaction(500, FALSE)>>]>>,
      <<[transactions |-> [i \in 1..6 |-> Transaction(9500, TRUE)]]>> }

RiskAssessments == { <<>>, <<[capitalRequirement |-> 0]>> }

MakeApplication(p, ssn, address, addressVerified, incomeVerified, incomeDocuments, employmentVerified, demographics, accountHistory) ==
    [id |-> p,
     personalInfo |-> [firstName |-> Persons[p].firstName,
                       lastName |-> Persons[p].lastName,
                       ssn |-> ssn,
                       address |-> address,
                       addressVerified |-> addressVerified],
     incomeVerified |-> incomeVerified,
     incomeDocuments |-> incomeDocuments,
     employmentVerified |-> employmentVerified,
     demographics |-> demographics,
     accountHistory |-> accountHistory]

\* Every combination: the inputs of the check modules called on their own.
Applications ==
    { MakeApplication(p, ssn, a, av, iv, idoc, ev, d, ah) :
        p \in DOMAIN Persons, ssn \in BOOLEAN, a \in Addresses, av \in BOOLEAN,
        iv \in BOOLEAN, idoc \in BOOLEAN, ev \in BOOLEAN, d \in Demographics,
        ah \in AccountHistories }

\* The applications submitted to the agent: complete ones, whose checks
\* reach every status.
SubmittedApplications ==
    { app \in Applications :
        /\ app.personalInfo.address = <<[country |-> "US", state |-> "CA"]>>
        /\ app.personalInfo.addressVerified
        /\ app.incomeDocuments = app.incomeVerified
        /\ app.accountHistory = <<>> }

NoCall == [fn |-> "none"]

(***************************************************************************)
(* ComplianceAgent: construction and operations.                           *)
(***************************************************************************)
InitComplianceAgent ==
    /\ compAuditTrail = <<>>
    /\ checkHistory = <<>>
    /\ lastCall = NoCall

\* logAction: one entry appended to the audit trail (and to the log file).
ComplianceLogAction(trail, action, details) ==
    Append(trail, [agentId |-> "compliance-001", action |-> action, details |-> details])

\* performComplianceCheck(application, riskAssessment), the check modules
\* invoked with `self` as their receiver.
RecordComplianceCheck(outcome) ==
    /\ checkHistory' = Append(checkHistory,
                           [application |-> application, outcome |-> outcome])
    /\ compAuditTrail' =
          IF outcome.thrown THEN compAuditTrail
          ELSE ComplianceLogAction(compAuditTrail, "COMPLIANCE_CHECK",
                   [applicationId |-> application.id,
                    status |-> outcome.value.overallStatus,
                    violations |-> Len(outcome.value.violations)])
    /\ lastCall' =
          IF outcome.thrown THEN lastCall
          ELSE [fn |-> "evaluateOverallCompliance", checks |-> outcome.value.checks,
                outcome |-> Returned(outcome.value.overallStatus)]

PerformComplianceCheck(self, riskAssessment) ==
    /\ Len(checkHistory) < MaxChecks
    /\ calls < MaxCalls
    /\ calls' = calls + 1
    /\ RecordComplianceCheck(
           performComplianceCheckResult(self, application, riskAssessment, watchLists))
    /\ UNCHANGED <<application, watchLists>>
    /\ UNCHANGED <<marketVars, riskAgentVars, marketLoad, appVars>>

\* The applicant submits the same application with other demographics.
SubmitDemographics(d) ==
    /\ Len(checkHistory) < MaxChecks
    /\ d # application.demographics
    /\ application' = [application EXCEPT !.demographics = d]
    /\ UNCHANGED <<watchLists, compAuditTrail, checkHistory, lastCall>>
    /\ UNCHANGED <<marketVars, riskVars, marketLoad, appVars>>

\* The check modules called on their own.
CallKYCCheck ==
    /\ lastCall' = [fn |-> "performKYCCheck", outcome |-> Returned(performKYCCheck(application))]
    /\ UNCHANGED <<application, watchLists, compAuditTrail, checkHistory>>
    /\ UNCHANGED <<marketVars, riskVars, marketLoad, appVars>>

CallAMLCheck(self) ==
    /\ lastCall' = [fn |-> "performAMLCheck",
                    outcome |-> performAMLCheck(self, application, watchLists)]
    /\ UNCHANGED <<application, watchLists, compAuditTrail, checkHistory>>
    /\ UNCHANGED <<marketVars, riskVars, marketLoad, appVars>>

\* The statuses each check module can assign, by its code.
ModuleStatuses ==
    [kyc |-> {"PASS", "CONDITIONAL", "FAIL"},
     aml |-> {"PASS", "REVIEW_REQUIRED", "FAIL"},
     fairLending |-> {"PASS", "REVIEW_REQUIRED"},
     regulatory |-> {"COMPLIANT", "WARNING", "VIOLATION"},
     sanctions |-> {"CLEAR", "REVIEW_REQUIRED"}]

\* Inputs of evaluateOverallCompliance called on its own: three checks.
CheckStatusInputs ==
    { [kyc |-> [status |-> k], aml |-> [status |-> a], regulatory |-> [status |-> r]] :
        k \in ModuleStatuses.kyc, a \in ModuleStatuses.aml, r \in ModuleStatuses.regulatory }

\* evaluateOverallCompliance called on its own, before any check is made.
CallEvaluateOverallCompliance(checks) ==
    /\ checkHistory = <<>>
    /\ lastCall' = [fn |-> "evaluateOverallCompliance", checks |-> checks,
                    outcome |-> Returned(evaluateOverallCompliance(checks))]
    /\ UNCHANGED <<application, watchLists, compAuditTrail, checkHistory>>
    /\ UNCHANGED <<marketVars, riskVars, marketLoad, appVars>>

(***************************************************************************)
(* services/marketService.  Rates are in hundredths of a percent (5.2 is   *)
(* 520), which toFixed(2) leaves as they are.  An absent value (undefined, *)
(* NaN) is the empty sequence.                                             *)
(***************************************************************************)
FallbackTreasuryRate == 520

DefaultParsedRate == 400

TreasuryMMFSpread == 15

CD3MonthSpread == 25

CD6MonthSpread == 35

MoneyMarketSpread == 25

MoneyMarketFloor == 400

HighYieldSavingsSpread == 45

HighYieldSavingsFloor == 380

CheckingRate == 10

\* What the environment can answer: whether an API key is configured,
\* whether the proxy answers OK, whether the body parses, and the values of
\* the observations in it (a number, or <<>> for text that is no number).
ObservationValues == { <<>>, <<0>>, <<350>>, <<425>>, <<523>> }

FredAnswers ==
    { [apiKey |-> k, ok |-> o, parsable |-> p, observations |-> obs] :
        k \in BOOLEAN, o \in BOOLEAN, p \in BOOLEAN,
        obs \in {<<>>, << <<>>, <<100>> >>} \cup { <<v>> : v \in ObservationValues } }

TreasuryFallback == [rate |-> FallbackTreasuryRate, isFallback |-> TRUE]

\* The body of fetchTreasuryRates' try block: what it returns, or the error
\* it throws.
TreasuryRatesTry(answer) ==
    IF ~answer.apiKey THEN Thrown("No API key configured")
    ELSE IF ~answer.ok THEN Thrown("HTTP error")
    ELSE IF ~answer.parsable THEN Thrown("SyntaxError")   \* response.json / JSON.parse
    ELSE IF Len(answer.observations) > 0 /\ answer.observations[1] # <<>>
    THEN Returned([rate |-> answer.observations[1][1], isFallback |-> FALSE])
    ELSE Thrown("Invalid rate data from FRED")

\* fetchTreasuryRates reading the last observation instead of the first.
fetchTreasuryRatesLatestObservation(answer) ==
    LET n == Len(answer.observations)
    IN  IF ~answer.apiKey \/ ~answer.ok \/ ~answer.parsable
           \/ n = 0 \/ answer.observations[n] = <<>>
        THEN TreasuryFallback
        ELSE [rate |-> answer.observations[n][1], isFallback |-> FALSE]

\* try { ... } catch (error) { return {rate: 5.2, isFallback: true} }
fetchTreasuryRates(answer) ==
    LET attempt == TreasuryRatesTry(answer)
    IN  IF attempt.thrown THEN TreasuryFallback ELSE attempt.value

\* The field `name` of an object, <<>> when the object has no such field.
Field(object, name) == IF name \in DOMAIN object THEN <<object[name]>> ELSE <<>>

\* parseFloat(baseRate) || 4.0
ParsedRate(baseRate) ==
    IF baseRate = <<>> \/ baseRate[1] = 0 THEN DefaultParsedRate ELSE baseRate[1]

\* The base rate fetchCurrentYields takes from what fetchTreasuryRates
\* returned: const { value: baseRate, isFallback } = await fetchTreasuryRates()
BaseRateOf(treasury) == Field(treasury, "value")

YieldsFrom(parsedRate) ==
    [TreasuryMMF      |-> [rate |-> parsedRate + TreasuryMMFSpread, liquidity |-> 90],
     MoneyMarket      |-> [rate |-> Max2(parsedRate - MoneyMarketSpread, MoneyMarketFloor),
                           liquidity |-> 90],
     HighYieldSavings |-> [rate |-> Max2(parsedRate - HighYieldSavingsSpread,
                                         HighYieldSavingsFloor),
                           liquidity |-> 80],
     Checking         |-> [rate |-> CheckingRate, liquidity |-> 100],
     CD3Month         |-> [rate |-> parsedRate + CD3MonthSpread, liquidity |-> 30],
     CD6Month         |-> [rate |-> parsedRate + CD6MonthSpread, liquidity |-> 10]]

fetchCurrentYields(treasury) == YieldsFrom(ParsedRate(BaseRateOf(treasury)))

NoResult == <<>>

InitMarketIdle ==
    /\ fred = [apiKey |-> FALSE, ok |-> FALSE, parsable |-> FALSE, observations |-> <<>>]
    /\ treasuryResult = NoResult
    /\ yieldsResult = NoResult
    /\ marketLoad = [load |-> "idle", treasury |-> "idle", fxRates |-> "idle", yields |-> "idle"]

\* The environment changes its answer.
FredChanges(answer) ==
    /\ fred' = answer
    /\ UNCHANGED <<treasuryResult, yieldsResult>>
    /\ UNCHANGED <<complianceVars, riskVars, marketLoad, appVars>>

FetchTreasuryRates ==
    /\ treasuryResult' = <<fetchTreasuryRates(fred)>>
    /\ UNCHANGED <<fred, yieldsResult>>
    /\ UNCHANGED <<complianceVars, riskVars, marketLoad, appVars>>

\* fetchCurrentYields, which fetches the Treasury rate itself.
RecordYields(treasury) ==
    yieldsResult' = <<[treasury |-> treasury, yields |-> fetchCurrentYields(treasury)]>>

FetchCurrentYields ==
    /\ RecordYields(fetchTreasuryRates(fred))
    /\ UNCHANGED <<fred, treasuryResult>>
    /\ UNCHANGED <<complianceVars, riskVars, marketLoad, appVars>>

(***************************************************************************)
(* The risk models of the CreditRiskAgent.  A table (coefficients,         *)
(* features, utilization factors) is a sequence of <<key, value>> pairs in *)
(* the order the code writes it; {} is the empty sequence.                 *)
(***************************************************************************)
RECURSIVE Lookup(_, _, _)
\* table[key] || default
Lookup(table, key, default) ==
    IF table = <<>> THEN default
    ELSE IF Head(table)[1] = key THEN Head(table)[2]
    ELSE Lookup(Tail(table), key, default)

\* x || default for a number x
OrElse(x, default) == IF x = 0 THEN default ELSE x

Clamp(lo, x, hi) == RMax(lo, RMin(hi, x))

RECURSIVE WeightedFeatures(_, _, _)
\* The loop of predict: the sum of coefficients[feature] * value * scale over
\* the features that have a coefficient.
WeightedFeatures(coefficients, features, scale) ==
    IF features = <<>> THEN RInt(0)
    ELSE RAdd(RMul(RMul(Lookup(coefficients, Head(features)[1], RInt(0)), Head(features)[2]),
                   scale),
              WeightedFeatures(coefficients, Tail(features), scale))

ModelNames == {"creditScoreModel", "pdModel", "lgdModel", "eadModel", "correlationModel"}

PredictingModels == {"creditScoreModel", "pdModel", "lgdModel", "eadModel"}

\* A model as its constructor leaves it.
NewModel == [isCalibrated |-> FALSE, coefficients |-> <<>>, tables |-> <<>>, performance |-> <<>>]

\* A model after its calibrate(): the fields calibrate assigns.  tables is
\* the class's own table (baselineRates, recoveryRates, utilizationFactors,
\* assetCorrelations) and performance holds the accuracy.
calibrate(m) ==
    CASE m = "creditScoreModel" ->
           [isCalibrated |-> TRUE,
            coefficients |->
                << <<"income", Rat(3, 10)>>, <<"employment_history", Rat(25, 100)>>,
                   <<"debt_to_income", Rat(-4, 10)>>, <<"credit_history", Rat(35, 100)>>,
                   <<"payment_behavior", Rat(4, 10)>> >>,
            tables |-> <<>>,
            performance |-> <<Rat(85, 100)>>]
      [] m = "pdModel" ->
           [isCalibrated |-> TRUE,
            coefficients |->
                << <<"credit_score", Rat(-8, 10)>>, <<"debt_to_income", Rat(12, 10)>>,
                   <<"employment_stability", Rat(-6, 10)>>, <<"loan_to_value", Rat(9, 10)>>,
                   <<"economic_conditions", Rat(4, 10)>>, <<"industry_risk", Rat(3, 10)>>,
                   <<"geographic_risk", Rat(2, 10)>> >>,
            tables |->
                << <<"excellent", Rat(5, 1000)>>, <<"good", Rat(15, 1000)>>, <<"fair", Rat(45, 1000)>>,
                   <<"poor", Rat(12, 100)>>, <<"very_poor", Rat(25, 100)>> >>,
            performance |-> <<Rat(88, 100)>>]
      [] m = "lgdModel" ->
           [isCalibrated |-> TRUE,
            coefficients |->
                << <<"collateral_type", Rat(-6, 10)>>, <<"loan_to_value", Rat(8, 10)>>,
                   <<"borrower_cooperation", Rat(-3, 10)>>, <<"legal_environment", Rat(2, 10)>>,
                   <<"economic_conditions", Rat(4, 10)>>, <<"collateral_liquidity", Rat(-5, 10)>>,
                   <<"seniority", Rat(-4, 10)>> >>,
            tables |->
                << <<"secured_real_estate", Rat(75, 100)>>, <<"secured_vehicle", Rat(55, 100)>>,
                   <<"secured_securities", Rat(80, 100)>>, <<"unsecured", Rat(25, 100)>>,
                   <<"subordinated", Rat(15, 100)>> >>,
            performance |-> <<Rat(82, 100)>>]
      [] m = "eadModel" ->
           [isCalibrated |-> TRUE,
            coefficients |->
                << <<"product_type", Rat(3, 10)>>, <<"borrower_quality", Rat(-2, 10)>>,
                   <<"facility_usage", Rat(8, 10)>>, <<"time_to_default", Rat(4, 10)>>,
                   <<"economic_stress", Rat(3, 10)>>, <<"line_management", Rat(-2, 10)>> >>,
            tables |->
                << <<"term_loan", RInt(1)>>, <<"revolving_credit", Rat(7, 10)>>,
                   <<"credit_card", Rat(8, 10)>>, <<"mortgage", RInt(1)>>, <<"overdraft", Rat(9, 10)>> >>,
            performance |-> <<Rat(85, 100)>>]
      [] m = "correlationModel" ->
           [isCalibrated |-> TRUE,
            coefficients |-> <<>>,
            tables |->
                << <<"real_estate", Rat(15, 100)>>, <<"corporate", Rat(12, 100)>>,
                   <<"retail", Rat(3, 100)>>, <<"sme", Rat(4, 100)>>, <<"sovereign", Rat(4, 100)>> >>,
            performance |-> <<Rat(78, 100)>>]

\* `if (!this.isCalibrated) await this.calibrate()` without the guard.
CalibrateNever(model, m) == model

\* `if (!this.isCalibrated) await this.calibrate()`: the model afterwards.
CalibrateIfNeeded(model, m) == IF model.isCalibrated THEN model ELSE calibrate(m)

(***************************************************************************)
(* The models' features and predictions.  model is the model's state when  *)
(* the loop of predict reads it.                                           *)
(***************************************************************************)
calculatePaymentBehaviorScore(accountHistory) ==
    IF accountHistory = <<>> THEN Rat(1, 2)
    ELSE LET payments == SelectSeq(accountHistory[1].transactions,
                                  LAMBDA t : t.type = "payment")
         IN  IF Len(payments) = 0 THEN Rat(1, 2)
             ELSE Rat(Len(SelectSeq(payments, LAMBDA t : t.onTime)), Len(payments))

extractFeatures(app) ==
    << <<"income", Rat(app.financialInfo.annualIncome, 100000)>>,
       <<"employment_history", Rat(app.financialInfo.employmentHistory, 60)>>,
       <<"debt_to_income",
         Rat(app.financialInfo.monthlyDebt * 12, OrElse(app.financialInfo.annualIncome, 1))>>,
       <<"credit_history", Rat(OrElse(app.financialInfo.creditScore, 600), 850)>>,
       <<"payment_behavior", calculatePaymentBehaviorScore(app.financialInfo.accountHistory)>> >>

CreditScorePredict(model, app) ==
    Clamp(RInt(0), WeightedFeatures(model.coefficients, extractFeatures(app), RInt(1)), RInt(1))

getIndustryRiskScore(industryType) ==
    Lookup(<< <<"technology", Rat(2, 10)>>, <<"healthcare", Rat(1, 10)>>, <<"finance", Rat(15, 100)>>,
              <<"retail", Rat(4, 10)>>, <<"hospitality", Rat(6, 10)>>, <<"energy", Rat(5, 10)>>,
              <<"manufacturing", Rat(3, 10)>>, <<"government", Rat(5, 100)>>,
              <<"education", Rat(1, 10)>> >>,
           industryType, Rat(3, 10))

getGeographicRiskScore(address) ==
    Lookup(<< <<"CA", Rat(2, 10)>>, <<"TX", Rat(15, 100)>>, <<"FL", Rat(25, 100)>>,
              <<"NY", Rat(2, 10)>>, <<"IL", Rat(3, 10)>>, <<"PA", Rat(25, 100)>>,
              <<"OH", Rat(3, 10)>>, <<"GA", Rat(2, 10)>>, <<"NC", Rat(15, 100)>>,
              <<"MI", Rat(35, 100)>> >>,
           address.state, Rat(25, 100))

getEconomicConditionsScore == Rat(3, 10)

LoanToValue(app, unsecured) ==
    IF app.collateral = <<>> THEN unsecured
    ELSE Rat(app.loanDetails.loanAmount, app.collateral[1].collateralValue)

extractPDFeatures(app) ==
    << <<"credit_score", Rat(850 - OrElse(app.financialInfo.creditScore, 650), 250)>>,
       <<"debt_to_income",
         RMin(Rat(app.financialInfo.monthlyDebt * 12,
                  OrElse(app.financialInfo.annualIncome, 50000)), RInt(2))>>,
       <<"employment_stability",
         RSub(RInt(1), RMin(Rat(app.financialInfo.employmentHistory, 60), RInt(1)))>>,
       <<"loan_to_value", LoanToValue(app, Rat(8, 10))>>,
       <<"economic_conditions", getEconomicConditionsScore>>,
       <<"industry_risk", getIndustryRiskScore(app.financialInfo.industryType)>>,
       <<"geographic_risk", getGeographicRiskScore(app.personalInfo.address)>> >>

\* ln(0.999 / 0.001) to three places: the log odds at which the probability
\* reaches the bounds 0.001 and 0.999 of predict.
LogOddsBound == Rat(6907, 1000)

\* e^x / (1 + e^x) bounded to [0.001, 0.999].  The sigmoid is strictly
\* increasing, so the probability is given by its log odds, bounded likewise.
BoundedProbability(logOdds) == [logOdds |-> Clamp(RNeg(LogOddsBound), logOdds, LogOddsBound)]

PDPredict(model, app) ==
    BoundedProbability(
        RAdd(Rat(-25, 10), WeightedFeatures(model.coefficients, extractPDFeatures(app), RInt(1))))

getProductTypeScore(loanType) ==
    Lookup(<< <<"revolving_credit", Rat(9, 10)>>, <<"credit_card", Rat(8, 10)>>,
              <<"overdraft", Rat(95, 100)>>, <<"term_loan", Rat(2, 10)>>, <<"mortgage", Rat(1, 10)>> >>,
           loanType, Rat(5, 10))

\* No application of the model carries creditCards.
getCurrentUtilization(app) == Rat(3, 10)

extractEADFeatures(app) ==
    << <<"product_type", getProductTypeScore(app.loanDetails.loanType)>>,
       <<"borrower_quality", Rat(OrElse(app.financialInfo.creditScore, 650), 850)>>,
       <<"facility_usage", getCurrentUtilization(app)>>,
       <<"time_to_default", Rat(5, 10)>>,
       <<"economic_stress", Rat(3, 10)>>,
       <<"line_management", Rat(7, 10)>> >>

EADPredict(model, app) ==
    RMul(Clamp(Rat(1, 10),
               RAdd(Lookup(model.tables, app.loanDetails.loanType, Rat(8, 10)),
                    WeightedFeatures(model.coefficients, extractEADFeatures(app), Rat(1, 10))),
               RInt(1)),
         RInt(app.loanDetails.loanAmount))

\* LossGivenDefaultModel.predict: extractLGDFeatures calls
\* this.getEconomicConditionsScore(), which the class does not define, so the
\* call throws a TypeError before any feature is used.
LGDPredict(model, app) == Thrown("TypeError")

\* The outcome of m.predict(app) once the model is calibrated if needed.
predict(m, model, app) ==
    CASE m = "creditScoreModel" -> Returned(CreditScorePredict(model, app))
      [] m = "pdModel" -> Returned(PDPredict(model, app))
      [] m = "lgdModel" -> LGDPredict(model, app)
      [] m = "eadModel" -> Returned(EADPredict(model, app))

(***************************************************************************)
(* CreditRiskAgent: the component scores and the overall score.            *)
(***************************************************************************)
\* income 0 with debt 0 makes debt / income 0/0, NaN, which Math.max keeps;
\* with a positive debt it is Infinity and Math.max(0, 1 - Infinity) is 0.
calculateFinancialStabilityScore(app) ==
    LET income == app.financialInfo.annualIncome
        debt == app.financialInfo.monthlyDebt * 12
        employment == app.financialInfo.employmentHistory
        incomeScore == RMul(RMin(Rat(income, 50000), RInt(1)), Rat(4, 10))
        debtRatio == IF income # 0 THEN RMax(RInt(0), RSub(RInt(1), Rat(debt, income)))
                     ELSE IF debt = 0 THEN NaN ELSE RInt(0)
        debtScore == RMul(debtRatio, Rat(4, 10))
        employmentScore == RMul(RMin(Rat(employment, 24), RInt(1)), Rat(2, 10))
    IN  RAdd(RAdd(incomeScore, debtScore), employmentScore)

calculateBehavioralScore(app) ==
    LET bankingHistory == IF app.relationshipInfo = <<>> THEN 0
                          ELSE app.relationshipInfo[1].length
        productUsage == IF app.relationshipInfo = <<>> THEN 0
                        ELSE Len(app.relationshipInfo[1].products)
        channelScore == IF app.channel = "branch" THEN Rat(8, 10)
                        ELSE IF app.channel = "online" THEN Rat(9, 10) ELSE Rat(7, 10)
        historyScore == RMul(RMin(Rat(bankingHistory, 60), RInt(1)), Rat(5, 10))
        usageScore == RMul(RMin(Rat(productUsage, 5), RInt(1)), Rat(3, 10))
    IN  RAdd(RAdd(historyScore, usageScore), RMul(channelScore, Rat(2, 10)))

calculateCollateralScore(app) ==
    IF app.collateral = <<>> THEN Rat(5, 10)
    ELSE LET loanToValue == Rat(app.loanDetails.loanAmount, app.collateral[1].collateralValue)
             collateralType == app.collateral[1].collateralType
             typeScore == IF collateralType = "real_estate" THEN Rat(9, 10)
                          ELSE IF collateralType = "vehicle" THEN Rat(6, 10)
                          ELSE IF collateralType = "securities" THEN Rat(8, 10)
                          ELSE Rat(7, 10)
             ltvScore == RMax(RInt(0), RSub(RInt(1), loanToValue))
         IN  RAdd(RMul(typeScore, Rat(4, 10)), RMul(ltvScore, Rat(6, 10)))

\* industryPerformance and regionalEconomics are what getIndustryPerformance
\* and getRegionalEconomics answer.
calculateMarketConditionsScore(industryPerformance, regionalEconomics) ==
    RDiv(RAdd(RAdd(RAdd(Rat(7, 10), Rat(8, 10)), industryPerformance), regionalEconomics),
         RInt(4))

RiskWeights ==
    << <<"creditScore", Rat(30, 100)>>, <<"financialStability", Rat(25, 100)>>,
       <<"behavioral", Rat(20, 100)>>, <<"collateral", Rat(15, 100)>>,
       <<"marketConditions", Rat(10, 100)>> >>

RECURSIVE OverallScore(_, _)
\* Object.keys(weights).reduce(...): total + scores[component] * weights[component]
OverallScore(scores, weights) ==
    IF weights = <<>> THEN RInt(0)
    ELSE RAdd(OverallScore(scores, SubSeq(weights, 1, Len(weights) - 1)),
              RMul(scores[weights[Len(weights)][1]], weights[Len(weights)][2]))

ComponentScores(creditScore, app, industryPerformance, regionalEconomics) ==
    [creditScore |-> creditScore,
     financialStability |-> calculateFinancialStabilityScore(app),
     behavioral |-> calculateBehavioralScore(app),
     collateral |-> calculateCollateralScore(app),
     marketConditions |-> calculateMarketConditionsScore(industryPerformance, regionalEconomics)]

WithOverall(components) ==
    [creditScore |-> components.creditScore,
     financialStability |-> components.financialStability,
     behavioral |-> components.behavioral,
     collateral |-> components.collateral,
     marketConditions |-> components.marketConditions,
     overall |-> OverallScore(components, RiskWeights)]

\* calculateComprehensiveRiskScores up to the point where lgdModel.predict
\* throws: the scores object it has built, with the models calibrated on the
\* way.  The rejection leaves expectedLoss uncomputed.
calculateComprehensiveRiskScores(ms, app, industryPerformance, regionalEconomics) ==
    LET cs == CalibrateIfNeeded(ms.creditScoreModel, "creditScoreModel")
        pd == CalibrateIfNeeded(ms.pdModel, "pdModel")
        lgd == CalibrateIfNeeded(ms.lgdModel, "lgdModel")
    IN  [scores |-> WithOverall(ComponentScores(CreditScorePredict(cs, app), app,
                                                industryPerformance, regionalEconomics)),
         probabilityOfDefault |-> PDPredict(pd, app),
         outcome |-> LGDPredict(lgd, app),
         models |-> [ms EXCEPT !.creditScoreModel = cs, !.pdModel = pd, !.lgdModel = lgd]]

(***************************************************************************)
(* CreditRiskAgent: stress scenarios.                                      *)
(***************************************************************************)
economicScenarios ==
    [baseline |-> [gdpGrowth |-> Rat(25, 1000), unemploymentRate |-> Rat(55, 1000),
                   probability |-> Rat(6, 10)],
     adverse |-> [gdpGrowth |-> Rat(-15, 1000), unemploymentRate |-> Rat(85, 1000),
                  probability |-> Rat(3, 10)],
     severely_adverse |-> [gdpGrowth |-> Rat(-45, 1000), unemploymentRate |-> Rat(12, 100),
                           probability |-> Rat(1, 10)]]

StressedScores(base, pdMultiplier, lgdMultiplier, eadMultiplier) ==
    LET pd == RMin(RMul(base.probabilityOfDefault, pdMultiplier), RInt(1))
        lgd == RMin(RMul(base.lossGivenDefault, lgdMultiplier), RInt(1))
        ead == RMin(RMul(base.exposureAtDefault, eadMultiplier), RInt(1))
    IN  [base EXCEPT !.probabilityOfDefault = pd,
                           !.lossGivenDefault = lgd,
                           !.exposureAtDefault = ead,
                           !.expectedLoss = RMul(RMul(pd, lgd), ead)]

\* applyStressScenario with `stressedScores = baseScores` for the copy
\* `{ ...baseScores }`: the stressed values are written into the base object.
applyStressScenarioInPlace(base, pdMultiplier, lgdMultiplier, eadMultiplier) ==
    [stressedScores |-> StressedScores(base, pdMultiplier, lgdMultiplier, eadMultiplier),
     baseScores |-> StressedScores(base, pdMultiplier, lgdMultiplier, eadMultiplier)]

\* applyStressScenario: the object it returns and the base object after the
\* call.  The multipliers are what calculatePDStressMultiplier,
\* calculateLGDStressMultiplier and calculateEADStressMultiplier answer for
\* the scenario and the application.
applyStressScenario(base, pdMultiplier, lgdMultiplier, eadMultiplier) ==
    [stressedScores |-> StressedScores(base, pdMultiplier, lgdMultiplier, eadMultiplier),
     baseScores |-> base]

(***************************************************************************)
(* Inputs of the CreditRiskAgent.                                          *)
(***************************************************************************)
\* What distinguishes two applicants beyond income, debt and collateral.
Profiles ==
    { [creditScore |-> 0, employmentHistory |-> 12, industryType |-> "unknown",
       accountHistory |-> <<>>, state |-> "ZZ", relationshipInfo |-> <<>>,
       channel |-> "online", loanType |-> "revolving_credit"],
      [creditScore |-> 680, employmentHistory |-> 36, industryType |-> "technology",
       accountHistory |->
           <<[transactions |-> << [type |-> "payment", onTime |-> TRUE],
                                  [type |-> "deposit", onTime |-> TRUE],
                                  [type |-> "payment", onTime |-> FALSE] >>]>>,
       state |-> "CA",
       relationshipInfo |-> <<[length |-> 30, products |-> <<"checking", "savings">>]>>,
       channel |-> "branch", loanType |-> "term_loan"] }

MakeLoanApplication(income, debt, collateral, profile) ==
    [financialInfo |-> [annualIncome |-> income, monthlyDebt |-> debt,
                        employmentHistory |-> profile.employmentHistory,
                        creditScore |-> profile.creditScore,
                        industryType |-> profile.industryType,
                        accountHistory |-> profile.accountHistory],
     personalInfo |-> [address |-> [state |-> profile.state]],
     relationshipInfo |-> profile.relationshipInfo,
     channel |-> profile.channel,
     collateral |-> collateral,
     loanDetails |-> [loanAmount |-> 200000, loanType |-> profile.loanType,
                      seniority |-> "senior"]]

LoanApplications ==
    { MakeLoanApplication(income, debt, collateral, profile) :
        income \in {0, 40000, 100000}, debt \in {0, 1000},
        collateral \in { <<>>,
                         <<[collateralValue |-> 250000, collateralType |-> "real_estate"]>>,
                         <<[collateralValue |-> 100000, collateralType |-> "vehicle"]>> },
        profile \in Profiles }

\* What getIndustryPerformance and getRegionalEconomics may answer.
MarketFactors == { RInt(0), Rat(1, 2), RInt(1) }

\* What the stress multiplier helpers may answer.
StressMultipliers == { Rat(1, 2), RInt(1), RInt(3) }

BaseScoreSets ==
    { [overall |-> Rat(1, 2), probabilityOfDefault |-> pd, lossGivenDefault |-> lgd,
       exposureAtDefault |-> ead, expectedLoss |-> RMul(RMul(pd, lgd), ead)] :
        pd \in { Rat(1, 1000), Rat(1, 20), Rat(999, 1000) },
        lgd \in { Rat(1, 20), Rat(45, 100), Rat(95, 100) },
        ead \in { Rat(7, 10), RInt(20000), RInt(200000) } }

(***************************************************************************)
(* The CreditRiskAgent as a state machine.  An async function runs until   *)
(* its first await that has to wait and is resumed later; the resumptions  *)
(* of different calls may come in any order.                               *)
(***************************************************************************)
AgentFields ==
    [agentId |-> "credit-risk-001",
     riskThresholds |-> [low |-> Rat(15, 100), medium |-> Rat(35, 100),
                         high |-> Rat(65, 100), critical |-> Rat(85, 100)],
     exposureLimits |-> [singleBorrower |-> Rat(25, 100), industry |-> Rat(30, 100),
                         geography |-> Rat(40, 100), productType |-> Rat(50, 100)],
     economicScenarios |-> economicScenarios,
     portfolio |-> [loans |-> <<>>, totalExposure |-> 0, riskWeightedAssets |-> 0],
     riskReports |-> <<>>,
     modelPerformance |-> <<>>]

ScoringFunctions ==
    PredictingModels \cup {"calculateFinancialStabilityScore", "calculateBehavioralScore",
                           "calculateCollateralScore", "performKYCCheck"}

\* logAction that keeps the latest entry only.
logActionLatestOnly(trail, action) == <<action>>

\* logAction: this.auditTrail.push(...); an entry is the action's name.
logAction(trail, action) == Append(trail, action)

\* The agent when its constructor returns: creditScoreModel.calibrate() has
\* run, initializeModels() is suspended at its first await.
InitCreditRiskAgent ==
    /\ agentFields = AgentFields
    /\ models = [m \in ModelNames |-> IF m = "creditScoreModel" THEN calibrate(m) ELSE NewModel]
    /\ auditTrail = <<>>
    /\ modelsInit = "pdModel"
    /\ predictions = <<>>
    /\ returned = [fn \in ScoringFunctions |-> {}]
    /\ riskScores = <<>>
    /\ calls = 0
    /\ stressResult = <<>>

InitRiskIdle ==
    /\ loanApplication = CHOOSE app \in LoanApplications : TRUE
    /\ baseScores = CHOOSE scores \in BaseScoreSets : TRUE
    /\ InitCreditRiskAgent

NextToInitialize ==
    [pdModel |-> "lgdModel", lgdModel |-> "eadModel", eadModel |-> "correlationModel",
     correlationModel |-> "logAction"]

\* initializeModels resumed: the next calibrate(), or the logAction after
\* the last one.
InitializeModelsStep ==
    /\ modelsInit # "done"
    /\ IF modelsInit = "logAction"
       THEN /\ auditTrail' = logAction(auditTrail, "MODELS_INITIALIZED")
            /\ modelsInit' = "done"
            /\ UNCHANGED models
       ELSE /\ models' = [models EXCEPT ![modelsInit] = calibrate(modelsInit)]
            /\ modelsInit' = NextToInitialize[modelsInit]
            /\ UNCHANGED auditTrail
    /\ UNCHANGED <<loanApplication, agentFields, predictions, returned, riskScores, calls,
                   baseScores, stressResult>>
    /\ UNCHANGED <<complianceVars, marketVars, marketLoad, appVars>>

Returns(fn, outcome) == returned' = [returned EXCEPT ![fn] = @ \cup {outcome}]

\* m.predict(loanApplication) called: a calibrated model answers at once, an
\* uncalibrated one is calibrated and the call waits.
CallPredict(m) ==
    /\ calls < MaxCalls
    /\ calls' = calls + 1
    /\ models' = [models EXCEPT ![m] = CalibrateIfNeeded(@, m)]
    /\ IF models[m].isCalibrated
       THEN /\ Returns(m, predict(m, models[m], loanApplication))
            /\ UNCHANGED predictions
       ELSE /\ predictions' = Append(predictions, m)
            /\ UNCHANGED returned
    /\ UNCHANGED <<loanApplication, agentFields, auditTrail, modelsInit, riskScores,
                   baseScores, stressResult>>
    /\ UNCHANGED <<complianceVars, marketVars, marketLoad, appVars>>

\* A waiting predict resumed after `await this.calibrate()`.
ResumePredict(i) ==
    /\ i \in DOMAIN predictions
    /\ Returns(predictions[i], predict(predictions[i], models[predictions[i]], loanApplication))
    /\ predictions' = SubSeq(predictions, 1, i - 1) \o SubSeq(predictions, i + 1, Len(predictions))
    /\ UNCHANGED <<loanApplication, agentFields, models, auditTrail, modelsInit, riskScores,
                   calls, baseScores, stressResult>>
    /\ UNCHANGED <<complianceVars, marketVars, marketLoad, appVars>>

Score(fn) ==
    CASE fn = "calculateFinancialStabilityScore" ->
           calculateFinancialStabilityScore(loanApplication)
      [] fn = "calculateBehavioralScore" -> calculateBehavioralScore(loanApplication)
      [] fn = "calculateCollateralScore" -> calculateCollateralScore(loanApplication)
      [] fn = "performKYCCheck" -> performKYCCheck(application)

\* A component score function or performKYCCheck called on its own.
CallScore(fn) ==
    /\ calls < MaxCalls
    /\ calls' = calls + 1
    /\ Returns(fn, Returned(Score(fn)))
    /\ UNCHANGED <<loanApplication, agentFields, models, auditTrail, modelsInit, predictions,
                   riskScores, baseScores, stressResult>>
    /\ UNCHANGED <<complianceVars, marketVars, marketLoad, appVars>>

RecordRiskScores(result, industryPerformance, regionalEconomics) ==
    /\ riskScores' = <<[scores |-> result.scores, outcome |-> result.outcome,
                        industryPerformance |-> industryPerformance,
                        regionalEconomics |-> regionalEconomics]>>
    /\ models' = result.models
    /\ returned' =
         [returned EXCEPT
            !["creditScoreModel"] = @ \cup {Returned(result.scores.creditScore)},
            !["calculateFinancialStabilityScore"] =
                @ \cup {Returned(result.scores.financialStability)},
            !["calculateBehavioralScore"] = @ \cup {Returned(result.scores.behavioral)},
            !["calculateCollateralScore"] = @ \cup {Returned(result.scores.collateral)},
            !["pdModel"] = @ \cup {Returned(result.probabilityOfDefault)},
            !["lgdModel"] = @ \cup {result.outcome}]

CalculateComprehensiveRiskScores(industryPerformance, regionalEconomics) ==
    /\ calls < MaxCalls
    /\ calls' = calls + 1
    /\ RecordRiskScores(
           calculateComprehensiveRiskScores(models, loanApplication,
                                            industryPerformance, regionalEconomics),
           industryPerformance, regionalEconomics)
    /\ UNCHANGED <<loanApplication, agentFields, auditTrail, modelsInit, predictions,
                   baseScores, stressResult>>
    /\ UNCHANGED <<complianceVars, marketVars, marketLoad, appVars>>

\* assessCreditRisk: createBorrowerProfile calls this.analyzeCommPattern,
\* which the class does not define; the TypeError is caught, logged as
\* RISK_ASSESSMENT_FAILED and thrown again before any model is used.
AssessCreditRisk ==
    /\ calls < MaxCalls
    /\ calls' = calls + 1
    /\ auditTrail' = logAction(auditTrail, "RISK_ASSESSMENT_FAILED")
    /\ UNCHANGED <<loanApplication, agentFields, models, modelsInit, predictions, returned,
                   riskScores, baseScores, stressResult>>
    /\ UNCHANGED <<complianceVars, marketVars, marketLoad, appVars>>

RecordStress(scenario, given, multipliers, result) ==
    /\ stressResult' = <<[scenario |-> scenario, given |-> given, multipliers |-> multipliers,
                          stressedScores |-> result.stressedScores]>>
    /\ baseScores' = result.baseScores

ApplyStressScenario(scenario, pdMultiplier, lgdMultiplier, eadMultiplier) ==
    /\ RecordStress(scenario, baseScores, <<pdMultiplier, lgdMultiplier, eadMultiplier>>,
                    applyStressScenario(baseScores, pdMultiplier, lgdMultiplier, eadMultiplier))
    /\ UNCHANGED <<loanApplication, agentFields, models, auditTrail, modelsInit, predictions,
                   returned, riskScores, calls>>
    /\ UNCHANGED <<complianceVars, marketVars, marketLoad, appVars>>

(***************************************************************************)
(* marketService.loadMarketData: Promise.all over three fetches started    *)
(* together.  Each fetch and the load itself is idle, pending or done.     *)
(***************************************************************************)
Fetches == {"treasury", "fxRates", "yields"}

IdleLoad == [load |-> "idle", treasury |-> "idle", fxRates |-> "idle", yields |-> "idle"]

\* Promise.race for Promise.all: the first fetch to settle settles the load.
AnySettled(ml) == \E f \in Fetches : ml[f] = "done"

\* Promise.all: every fetch has settled.
AllSettled(ml) == \A f \in Fetches : ml[f] = "done"

\* loadMarketData called: the three fetches run up to their first await.
\* fetchTreasuryRates without an API key throws before it awaits anything
\* and has its fallback answer at once.
LoadMarketData ==
    /\ marketLoad.load # "pending"
    /\ calls < MaxCalls
    /\ calls' = calls + 1
    /\ marketLoad' = [load |-> "pending",
                      treasury |-> IF fred.apiKey THEN "pending" ELSE "done",
                      fxRates |-> "pending",
                      yields |-> "pending"]
    /\ treasuryResult' = IF fred.apiKey THEN treasuryResult ELSE <<fetchTreasuryRates(fred)>>
    /\ UNCHANGED <<fred, yieldsResult>>
    /\ UNCHANGED <<complianceVars, riskAgentVars, appVars>>

\* One of the fetches in flight settles.
FetchSettles(f) ==
    /\ marketLoad[f] = "pending"
    /\ marketLoad' = [marketLoad EXCEPT ![f] = "done"]
    /\ CASE f = "treasury" ->
              /\ treasuryResult' = <<fetchTreasuryRates(fred)>>
              /\ UNCHANGED yieldsResult
         [] f = "yields" ->
              /\ RecordYields(fetchTreasuryRates(fred))
              /\ UNCHANGED treasuryResult
         [] f = "fxRates" -> UNCHANGED <<treasuryResult, yieldsResult>>
    /\ UNCHANGED fred
    /\ UNCHANGED <<complianceVars, riskVars, appVars>>

\* The await of Promise.all resumes and loadMarketData returns.
LoadMarketDataReturns ==
    /\ marketLoad.load = "pending"
    /\ AllSettled(marketLoad)
    /\ marketLoad' = [marketLoad EXCEPT !.load = "done"]
    /\ UNCHANGED marketVars
    /\ UNCHANGED <<complianceVars, riskVars, appVars>>

(***************************************************************************)
(* components/AuraDemo and the AIIntelligencePanel it renders.  Amounts    *)
(* are in thousands of dollars.                                            *)
(***************************************************************************)
\* useState({ totalCash: 250000, currentAllocation: {...}, isSimulated: true })
InitialPortfolioState ==
    [totalCash |-> 250,
     currentAllocation |->
         [account \in {"Checking", "Money Market", "High Yield Savings", "Treasury MMF",
                       "CD 3-Month", "CD 6-Month"} |->
             CASE account = "Checking" -> 50
               [] account = "Money Market" -> 75
               [] account = "High Yield Savings" -> 60
               [] account = "Treasury MMF" -> 40
               [] account = "CD 3-Month" -> 15
               [] account = "CD 6-Month" -> 10],
     isSimulated |-> TRUE]

\* The recommendations handed to handleAIRecommendation: by the emergency
\* buttons, by the quick fix (a REBALANCE with the top action as data) and by
\* the panel (any recommendation of the analysis).
DemoRecommendations ==
    { [type |-> "INCREASE_LIQUIDITY", data |-> <<>>],
      [type |-> "OPTIMIZE_YIELD", data |-> <<>>],
      [type |-> "REBALANCE", data |-> <<[account |-> "CD 6-Month", targetAmount |-> 50]>>],
      [type |-> "REBALANCE", data |-> <<>>],
      [type |-> "MAINTAIN_STATUS", data |-> <<>>] }

InitDemoIdle ==
    /\ portfolioState = InitialPortfolioState
    /\ aiRecommendations = <<>>
    /\ executions = <<>>
    /\ panel = [loading |-> FALSE, analysis |-> "null", engineCalls |-> 0]

InitAppIdle ==
    /\ InitDemoIdle
    /\ engineCall = <<>>

\* handleAIRecommendation taking every recommendation for executable.
RecommendationEntryAlwaysExecuting(state, recommendation) ==
    [type |-> recommendation.type, status |-> "EXECUTING"]

\* The entry handleAIRecommendation appends to aiRecommendations.
RecommendationEntry(state, recommendation) ==
    [type |-> recommendation.type,
     status |-> IF state.isSimulated THEN "SKIPPED" ELSE "EXECUTING"]

\* Whether handleAIRecommendation goes on to await an execution.
Executes(entry, recommendation) ==
    /\ entry.status = "EXECUTING"
    /\ \/ recommendation.type = "REBALANCE" /\ recommendation.data # <<>>
       \/ recommendation.type = "INCREASE_LIQUIDITY"
       \/ recommendation.type = "OPTIMIZE_YIELD"

\* The handler appends its entry and, unless it skips, starts the execution,
\* which waits for a timer.  A recommendation of another type completes at
\* once; the map that marks it COMPLETED compares the entry's fresh Date with
\* recommendation.timestamp and so changes no entry.
HandleAIRecommendation(recommendation) ==
    /\ Len(aiRecommendations) < MaxRecommendations
    /\ LET entry == RecommendationEntry(portfolioState, recommendation)
       IN  /\ aiRecommendations' = Append(aiRecommendations, entry)
           /\ executions' = IF Executes(entry, recommendation)
                            THEN Append(executions, recommendation)
                            ELSE executions
    /\ UNCHANGED <<portfolioState, panel, engineCall>>
    /\ UNCHANGED <<complianceVars, marketVars, riskVars, marketLoad>>

\* The updaters executeRebalancing, increaseLiquidity and optimizeYield hand
\* to setPortfolioState.
executeRebalancing(allocation, data) ==
    [allocation EXCEPT ![data.account] = data.targetAmount]

increaseLiquidity(allocation) ==
    LET moveAmount == Min2(allocation["CD 6-Month"], 20)
    IN  [allocation EXCEPT !["CD 6-Month"] = @ - moveAmount,
                           !["Money Market"] = @ + moveAmount]

optimizeYield(allocation) ==
    LET moveAmount == Min2(allocation["Checking"], 30)
    IN  [allocation EXCEPT !["Checking"] = @ - moveAmount,
                           !["High Yield Savings"] = @ + moveAmount]

Execute(allocation, recommendation) ==
    CASE recommendation.type = "REBALANCE" ->
             executeRebalancing(allocation, recommendation.data[1])
      [] recommendation.type = "INCREASE_LIQUIDITY" -> increaseLiquidity(allocation)
      [] recommendation.type = "OPTIMIZE_YIELD" -> optimizeYield(allocation)

\* The timer of the i-th waiting execution fires: the portfolio is updated
\* and the handler completes (marking no entry, as above).
ExecutionTimerFires(i) ==
    /\ i \in DOMAIN executions
    /\ portfolioState' =
           [portfolioState EXCEPT !.currentAllocation = Execute(@, executions[i])]
    /\ executions' = SubSeq(executions, 1, i - 1) \o SubSeq(executions, i + 1, Len(executions))
    /\ UNCHANGED <<aiRecommendations, panel, engineCall>>
    /\ UNCHANGED <<complianceVars, marketVars, riskVars, marketLoad>>

\* runAIAnalysis: returns early on a simulated portfolio, otherwise calls
\* aiEngine.analyzeAndOptimize and keeps its result, or null when it rejects.
RunAIAnalysis(analysis) ==
    /\ panel.engineCalls < MaxAnalyses
    /\ panel' = IF portfolioState.isSimulated
                THEN [panel EXCEPT !.loading = FALSE]
                ELSE [loading |-> FALSE, analysis |-> analysis,
                      engineCalls |-> panel.engineCalls + 1]
    /\ UNCHANGED <<portfolioState, aiRecommendations, executions, engineCall>>
    /\ UNCHANGED <<complianceVars, marketVars, riskVars, marketLoad>>

(***************************************************************************)
(* components/aura-ai-engine: the DecisionEngine.  A recommendation is a   *)
(* record [type, priority, action]; an action text is a tuple of its       *)
(* parts.  A priority that is a number (the optimizer's) is "number".      *)
(***************************************************************************)
RECURSIVE Deduplicate(_, _)
\* The filter of deduplicateRecommendations, seen being the keys met so far.
Deduplicate(recommendations, seen) ==
    IF recommendations = <<>> THEN <<>>
    ELSE LET rec == Head(recommendations)
             key == <<rec.type, rec.action>>
         IN  IF key \in seen THEN Deduplicate(Tail(recommendations), seen)
             ELSE <<rec>> \o Deduplicate(Tail(recommendations), seen \cup {key})

deduplicateRecommendations(recommendations) == Deduplicate(recommendations, {})

\* priorityMap[priority] || 1
PriorityRank(priority) ==
    CASE priority = "HIGH" -> 3
      [] priority = "MEDIUM" -> 2
      [] OTHER -> 1

\* recommendations.sort(this.prioritizeRecommendations): a stable sort by
\* descending rank.
SortByPriority(recommendations) ==
    SelectSeq(recommendations, LAMBDA rec : PriorityRank(rec.priority) = 3)
    \o SelectSeq(recommendations, LAMBDA rec : PriorityRank(rec.priority) = 2)
    \o SelectSeq(recommendations, LAMBDA rec : PriorityRank(rec.priority) = 1)

\* The recommendations of the three sources in one list: the optimizer's
\* rebalance actions first, then the forecaster's, then the risk engine's.
AllRecommendations(optimization, forecast, riskAssessment) ==
    [i \in DOMAIN optimization.rebalanceActions |->
        LET action == optimization.rebalanceActions[i]
        IN  [source |-> "OPTIMIZER", type |-> "REBALANCE", priority |-> action.priority,
             action |-> <<action.action, action.account, action.amount>>]]
    \o [i \in DOMAIN forecast.recommendations |->
           [source |-> "FORECASTER", type |-> forecast.recommendations[i].type,
            priority |-> forecast.recommendations[i].priority,
            action |-> forecast.recommendations[i].action]]
    \o [i \in DOMAIN riskAssessment.recommendations |->
           [source |-> "RISK_ENGINE", type |-> riskAssessment.recommendations[i].type,
            priority |-> riskAssessment.recommendations[i].priority,
            action |-> riskAssessment.recommendations[i].action]]

\* consolidateRecommendations keeping the first five it was given.
consolidateRecommendationsUnsorted(optimization, forecast, riskAssessment) ==
    LET kept == deduplicateRecommendations(
                    AllRecommendations(optimization, forecast, riskAssessment))
    IN  SubSeq(kept, 1, Min2(5, Len(kept)))

consolidateRecommendations(optimization, forecast, riskAssessment) ==
    LET sorted == SortByPriority(deduplicateRecommendations(
                      AllRecommendations(optimization, forecast, riskAssessment)))
    IN  SubSeq(sorted, 1, Min2(5, Len(sorted)))

RECURSIVE RSum(_)
RSum(s) == IF s = <<>> THEN RInt(0) ELSE RAdd(Head(s), RSum(Tail(s)))

\* forecast.predictions holds the confidence of each prediction.
calculateOverallConfidence(optimizationConfidence, forecast, riskAssessment) ==
    LET forecastConfidence ==
            IF Len(forecast.predictions) > 0
            THEN RDiv(RSum(forecast.predictions), RInt(Len(forecast.predictions)))
            ELSE Rat(1, 2)
        riskConfidence ==
            RMax(RInt(0), RSub(RInt(1), RDiv(riskAssessment.overallRisk, RInt(10))))
    IN  RAdd(RAdd(RMul(optimizationConfidence, Rat(4, 10)),
                  RMul(forecastConfidence, Rat(3, 10))),
             RMul(riskConfidence, Rat(3, 10)))

createExecutionPlan(recommendations) ==
    LET high == SelectSeq(recommendations, LAMBDA rec : rec.priority = "HIGH")
    IN  [index \in DOMAIN high |->
            [step |-> index, action |-> high[index].action, type |-> high[index].type]]

getFallbackDecision ==
    [confidence |-> Rat(3, 10),
     recommendations |->
         << [type |-> "MAINTAIN_STATUS", priority |-> "LOW",
             action |-> <<"Maintain current allocation pending system recovery">>] >>,
     analysis |-> <<>>,
     executionPlan |-> <<>>]

\* What a component's try/catch in makeIntelligentDecision leaves: the
\* component's result, or the default put in its place when it failed.
OrDefault(outcome, default) == IF outcome.thrown THEN default ELSE outcome.value

\* The body of makeIntelligentDecision's outer try block.  optimizer,
\* forecaster and riskEngine are the outcomes of the three awaited calls.
DecisionTry(marketData, portfolio, optimizer, forecaster, riskEngine) ==
    IF marketData = <<>> \/ portfolio = <<>>
    THEN Thrown("Invalid input data for decision making")
    ELSE LET optimization ==
                 OrDefault(optimizer, [rebalanceActions |-> <<>>, confidence |-> Rat(3, 10)])
             forecast ==
                 OrDefault(forecaster, [predictions |-> <<>>, recommendations |-> <<>>])
             riskAssessment ==
                 OrDefault(riskEngine, [overallRisk |-> Rat(1, 2), recommendations |-> <<>>])
             recommendations ==
                 consolidateRecommendations(optimization, forecast, riskAssessment)
             confidence ==
                 calculateOverallConfidence(
                     IF optimization.confidence = RInt(0) THEN Rat(3, 10)
                     ELSE optimization.confidence,
                     forecast, riskAssessment)
         IN  Returned([confidence |-> confidence,
                       recommendations |-> recommendations,
                       analysis |-> <<[optimization |-> optimization, forecast |-> forecast,
                                       riskAssessment |-> riskAssessment]>>,
                       executionPlan |-> IF RLe(Rat(7, 10), confidence)
                                         THEN createExecutionPlan(recommendations)
                                         ELSE <<>>])

\* makeIntelligentDecision giving up when the optimizer fails.
makeIntelligentDecisionAllOrNothing(marketData, portfolio, optimizer, forecaster, riskEngine) ==
    IF optimizer.thrown THEN getFallbackDecision
    ELSE OrDefault(DecisionTry(marketData, portfolio, optimizer, forecaster, riskEngine),
                   getFallbackDecision)

\* try { ... return decision } catch (error) { return this.getFallbackDecision() }
makeIntelligentDecision(marketData, portfolio, optimizer, forecaster, riskEngine) ==
    OrDefault(DecisionTry(marketData, portfolio, optimizer, forecaster, riskEngine),
              getFallbackDecision)

\* What the optimizer, the forecaster and the risk engine can answer.
OptimizerOutcomes ==
    { Thrown("Error"),
      Returned([rebalanceActions |-> <<>>, confidence |-> Rat(7, 10)]),
      Returned([rebalanceActions |-> <<>>, confidence |-> RInt(0)]),
      Returned([rebalanceActions |->
                    << [account |-> "Treasury MMF", action |-> "INCREASE", amount |-> 100,
                        priority |-> "number"] >>,
                confidence |-> Rat(9, 10)]) }

ForecasterOutcomes ==
    { Thrown("Error"),
      Returned([predictions |-> <<Rat(99, 100), Rat(98, 100)>>,
                recommendations |->
                    << [type |-> "INCREASE_LIQUIDITY", priority |-> "HIGH",
                        action |-> <<"Increase liquid cash reserves by 20%">>],
                       [type |-> "OPTIMIZE_YIELD", priority |-> "MEDIUM",
                        action |-> <<"Consider moving excess cash to higher-yield accounts">>] >>]),
      Returned([predictions |-> <<Rat(1, 2)>>,
                recommendations |->
                    << [type |-> "DATA_QUALITY", priority |-> "LOW",
                        action |-> <<"Improve historical data for better forecasting">>] >>]) }

RiskEngineOutcomes ==
    { Thrown("Error"),
      Returned([overallRisk |-> Rat(1, 2), recommendations |-> <<>>]),
      Returned([overallRisk |-> RInt(2),
                recommendations |->
                    << [type |-> "INCREASE_LIQUIDITY", priority |-> "HIGH",
                        action |-> <<"Move funds to more liquid accounts (Checking, Money Market)">>] >>]) }

\* A call of makeIntelligentDecision; a missing argument is <<>>.
RecordDecision(args, decision) ==
    engineCall' = <<[fn |-> "makeIntelligentDecision", args |-> args, result |-> decision]>>

MakeIntelligentDecision(marketData, portfolio, optimizer, forecaster, riskEngine) ==
    /\ RecordDecision([marketData |-> marketData, portfolioState |-> portfolio,
                       optimizer |-> optimizer, forecaster |-> forecaster,
                       riskEngine |-> riskEngine],
                      makeIntelligentDecision(marketData, portfolio, optimizer, forecaster,
                                              riskEngine))
    /\ UNCHANGED demoVars
    /\ UNCHANGED <<complianceVars, marketVars, riskVars, marketLoad>>

(***************************************************************************)
(* components/aura-ai-engine: the SmartCashOptimizer.  accounts and        *)
(* accountScores are sequences of <<type, value>> pairs in the order of     *)
(* Object.entries; an allocation is a function from the account types it   *)
(* has a key for to amounts.  Rates are in percent, amounts in thousands.  *)
(***************************************************************************)
\* x || default for a number x
ROr(x, default) == IF IsNaN(x) \/ x = RInt(0) THEN default ELSE x

getLiquidityPenalty(accountType) ==
    ROr(Lookup(<< <<"Checking", RInt(0)>>, <<"Money Market", Rat(1, 1000)>>,
                  <<"High Yield Savings", Rat(2, 1000)>>, <<"Treasury MMF", Rat(1, 1000)>>,
                  <<"CD 3-Month", Rat(1, 100)>>, <<"CD 6-Month", Rat(2, 100)>> >>,
               accountType, RInt(0)),
        Rat(5, 1000))

getRiskPenalty(accountType) ==
    ROr(Lookup(<< <<"Checking", RInt(0)>>, <<"Money Market", Rat(1, 1000)>>,
                  <<"High Yield Savings", Rat(2, 1000)>>, <<"Treasury MMF", Rat(1, 1000)>>,
                  <<"CD 3-Month", Rat(5, 1000)>>, <<"CD 6-Month", Rat(8, 1000)>> >>,
               accountType, RInt(0)),
        Rat(5, 1000))

\* scores[type].rawScore for each account, this.riskAversion being 0.5.
calculateAccountScores(accounts) ==
    [i \in DOMAIN accounts |->
        LET type == accounts[i][1]
            rate == accounts[i][2].rate
        IN  <<type, [rawScore |-> RSub(RSub(RDiv(rate, RInt(100)),
                                            RMul(getLiquidityPenalty(type), Rat(1, 2))),
                                       getRiskPenalty(type)),
                     rate |-> rate]>>]

\* this.minLiquidityRatio is 0.15; emergencyReserve is 0 when not given.
calculateLiquidityConstraints(totalCash, emergencyReserve) ==
    [minLiquid |-> RMax(RMul(RInt(totalCash), Rat(15, 100)), RInt(emergencyReserve)),
     maxIlliquid |-> RMul(RInt(totalCash), Rat(6, 10)),
     totalCash |-> totalCash]

isHighLiquidity(accountType) == accountType \in {"Checking", "Money Market", "Treasury MMF"}

getMaxAllocation(accountType, totalCash) ==
    RMul(RInt(totalCash),
         ROr(Lookup(<< <<"Checking", Rat(3, 10)>>, <<"Money Market", Rat(4, 10)>>,
                       <<"High Yield Savings", Rat(5, 10)>>, <<"Treasury MMF", Rat(6, 10)>>,
                       <<"CD 3-Month", Rat(3, 10)>>, <<"CD 6-Month", Rat(2, 10)>> >>,
                    accountType, RInt(0)),
             Rat(25, 100)))

getAllocationWeight(score) == RMax(Rat(1, 10), RMin(Rat(4, 10), RMul(score, RInt(8))))

RECURSIVE SortByScore(_)
\* entries.sort(([, a], [, b]) => b.rawScore - a.rawScore): a stable sort,
\* highest score first.
SortByScore(entries) ==
    IF entries = <<>> THEN <<>>
    ELSE LET last == entries[Len(entries)]
             sorted == SortByScore(SubSeq(entries, 1, Len(entries) - 1))
             before == SelectSeq(sorted, LAMBDA e : RLe(last[2].rawScore, e[2].rawScore))
             after == SelectSeq(sorted, LAMBDA e : ~RLe(last[2].rawScore, e[2].rawScore))
         IN  before \o <<last>> \o after

getBestLiquidAccount(accountScores) ==
    LET liquidAccounts ==
            SortByScore(SelectSeq(accountScores, LAMBDA e : isHighLiquidity(e[1])))
    IN  IF liquidAccounts = <<>> THEN "Checking" ELSE liquidAccounts[1][1]

\* allocation[type] || 0
AmountOf(allocation, type) ==
    IF type \in DOMAIN allocation THEN allocation[type] ELSE RInt(0)

\* allocation[type] = amount
WithAmount(allocation, type, amount) ==
    [t \in DOMAIN allocation \cup {type} |-> IF t = type THEN amount ELSE allocation[t]]

RECURSIVE SatisfyLiquidity(_, _, _)
\* Step 1, the loop over the high-liquidity accounts.  progress holds
\* allocation, liquidityAllocated and remainingCash.
SatisfyLiquidity(liquidAccounts, progress, minLiquid) ==
    IF liquidAccounts = <<>> THEN progress
    ELSE IF RLt(progress.liquidityAllocated, minLiquid)
    THEN LET allocate == RMin(RSub(minLiquid, progress.liquidityAllocated),
                              RMul(progress.remainingCash, Rat(4, 10)))
         IN  SatisfyLiquidity(
                 Tail(liquidAccounts),
                 [allocation |-> WithAmount(progress.allocation, Head(liquidAccounts)[1], allocate),
                  liquidityAllocated |-> RAdd(progress.liquidityAllocated, allocate),
                  remainingCash |-> RSub(progress.remainingCash, allocate)],
                 minLiquid)
    ELSE SatisfyLiquidity(Tail(liquidAccounts), progress, minLiquid)

RECURSIVE AllocateByScore(_, _, _)
\* Step 2, the loop over all accounts, highest score first.
AllocateByScore(sortedAccounts, progress, totalCash) ==
    IF sortedAccounts = <<>> \/ RLe(progress.remainingCash, RInt(0)) THEN progress
    ELSE LET type == Head(sortedAccounts)[1]
             currentAllocation == AmountOf(progress.allocation, type)
             additionalCapacity == RSub(getMaxAllocation(type, totalCash), currentAllocation)
             allocate == RMin(additionalCapacity,
                              RMul(progress.remainingCash,
                                   getAllocationWeight(Head(sortedAccounts)[2].rawScore)))
         IN  IF RLt(RInt(0), additionalCapacity)
             THEN AllocateByScore(
                      Tail(sortedAccounts),
                      [progress EXCEPT
                          !.allocation = WithAmount(@, type, RAdd(currentAllocation, allocate)),
                          !.remainingCash = RSub(@, allocate)],
                      totalCash)
             ELSE AllocateByScore(Tail(sortedAccounts), progress, totalCash)

\* solveOptimization leaving the cash that remains after step 2 unallocated.
DropRemainingCash(progress, accountScores) == progress.allocation

\* Step 3: any remaining cash goes to the best liquid account.
AllocateRemainingCash(progress, accountScores) ==
    IF RLt(RInt(0), progress.remainingCash)
    THEN LET fallbackAccount == getBestLiquidAccount(accountScores)
         IN  WithAmount(progress.allocation, fallbackAccount,
                        RAdd(AmountOf(progress.allocation, fallbackAccount),
                             progress.remainingCash))
    ELSE progress.allocation

solveOptimization(accountScores, totalCash, constraints) ==
    AllocateRemainingCash(
        AllocateByScore(
            SortByScore(accountScores),
            SatisfyLiquidity(
                SelectSeq(SortByScore(accountScores), LAMBDA e : isHighLiquidity(e[1])),
                [allocation |-> <<>>, liquidityAllocated |-> RInt(0),
                 remainingCash |-> RInt(totalCash)],
                constraints.minLiquid),
            totalCash),
        accountScores)

\* The account types of marketData.yields in the order fetchCurrentYields
\* writes them.
AccountTypes ==
    <<"Treasury MMF", "Money Market", "High Yield Savings", "Checking", "CD 3-Month",
      "CD 6-Month">>

\* The yields handed to the optimizer: any of the six accounts, each with a
\* low or a high rate.
AccountSets ==
    { LET offered == SelectSeq(<<1, 2, 3, 4, 5, 6>>, LAMBDA i : choice[i] # "absent")
      IN  [k \in DOMAIN offered |->
              <<AccountTypes[offered[k]],
                [rate |-> IF choice[offered[k]] = "low" THEN Rat(1, 10) ELSE RInt(10)]>>] :
        choice \in [1..6 -> {"absent", "low", "high"}] }

\* A call of a function of the engine that has not returned yet.
Called(fn) ==
    /\ engineCall # <<>>
    /\ engineCall[1].fn = fn
    /\ "result" \notin DOMAIN engineCall[1]

\* optimizeAllocation up to its optimalAllocation.
RecordOptimization(args, accountScores, constraints, allocation) ==
    engineCall' = <<[fn |-> "optimizeAllocation", args |-> args, accountScores |-> accountScores,
                     constraints |-> constraints, result |-> allocation]>>

OptimizeAllocation ==
    /\ Called("optimizeAllocation")
    /\ LET args == engineCall[1].args
       IN  RecordOptimization(
               args,
               calculateAccountScores(args.accounts),
               calculateLiquidityConstraints(args.totalCash, args.emergencyReserve),
               solveOptimization(
                   calculateAccountScores(args.accounts), args.totalCash,
                   calculateLiquidityConstraints(args.totalCash, args.emergencyReserve)))
    /\ UNCHANGED demoVars
    /\ UNCHANGED <<complianceVars, marketVars, riskVars, marketLoad>>

\* A call of consolidateRecommendations on its own.
RecordConsolidation(args, recommendations) ==
    engineCall' = <<[fn |-> "consolidateRecommendations", args |-> args,
                     result |-> recommendations]>>

ConsolidateRecommendations ==
    /\ Called("consolidateRecommendations")
    /\ RecordConsolidation(engineCall[1].args,
                           consolidateRecommendations(engineCall[1].args.optimization,
                                                      engineCall[1].args.forecast,
                                                      engineCall[1].args.riskAssessment))
    /\ UNCHANGED demoVars
    /\ UNCHANGED <<complianceVars, marketVars, riskVars, marketLoad>>

\* The subsequences of a sequence of at most four entries.
SubSequences(s) ==
    { SelectSeq([i \in DOMAIN s |-> <<s[i], keep[i]>>], LAMBDA e : e[2]) :
        keep \in [DOMAIN s -> BOOLEAN] }

Firsts(pairs) == [i \in DOMAIN pairs |-> pairs[i][1]]

\* What the three sources can recommend: rebalance actions of the optimizer
\* (their priority is the number getActionPriority computes), the
\* forecaster's recommendations or its fallback, and the risk engine's, one
\* for each risk factor, the highest score first.
RebalanceActionLists ==
    { Firsts(s) : s \in SubSequences(
        << [account |-> "Treasury MMF", action |-> "INCREASE", amount |-> 100,
            priority |-> "number"],
           [account |-> "Checking", action |-> "DECREASE", amount |-> 40,
            priority |-> "number"],
           [account |-> "CD 6-Month", action |-> "DECREASE", amount |-> 10,
            priority |-> "number"] >>) }

ForecastRecommendationLists ==
    { Firsts(s) : s \in SubSequences(
        << [type |-> "INCREASE_LIQUIDITY", priority |-> "HIGH",
            action |-> <<"Increase liquid cash reserves by 20%">>],
           [type |-> "OPTIMIZE_YIELD", priority |-> "MEDIUM",
            action |-> <<"Consider moving excess cash to higher-yield accounts">>],
           [type |-> "RISK_MITIGATION", priority |-> "HIGH",
            action |-> <<"Establish credit facility for liquidity backup">>] >>) }
    \cup { << [type |-> "DATA_QUALITY", priority |-> "LOW",
               action |-> <<"Improve historical data for better forecasting">>] >> }

RiskFactorOrders == { <<1, 2, 3, 4>>, <<4, 3, 2, 1>>, <<3, 1, 1, 2>> }

RiskRecommendationLists ==
    { Firsts(s) : s \in UNION { SubSequences(
        [k \in 1..4 |->
            << [type |-> "INCREASE_LIQUIDITY", priority |-> "HIGH",
                action |-> <<"Move funds to more liquid accounts (Checking, Money Market)">>],
               [type |-> "DIVERSIFY", priority |-> "MEDIUM",
                action |-> <<"Spread allocation across more account types">>],
               [type |-> "REDUCE_DURATION", priority |-> "LOW",
                action |-> <<"Consider shorter-duration instruments">>],
               [type |-> "IMPROVE_CREDIT_QUALITY", priority |-> "MEDIUM",
                action |-> <<"Move to FDIC-insured or government-backed accounts">>]
            >>[order[k]]]) : order \in RiskFactorOrders } }

(***************************************************************************)
(* SpecChecks: the check modules on every application.                     *)
(***************************************************************************)
InitChecks ==
    /\ application \in Applications
    /\ watchLists \in {SampleWatchLists, EmptyWatchLists}
    /\ InitComplianceAgent
    /\ InitMarketIdle
    /\ InitRiskIdle
    /\ InitAppIdle

NextChecks ==
    \/ CallKYCCheck
    \/ \E self \in Receivers : CallAMLCheck(self)

SpecChecks == InitChecks /\ [][NextChecks]_vars

(***************************************************************************)
(* SpecCompliance: the ComplianceAgent checking submitted applications.    *)
(***************************************************************************)
InitCompliance ==
    /\ application \in SubmittedApplications
    /\ watchLists = SampleWatchLists
    /\ InitComplianceAgent
    /\ InitMarketIdle
    /\ InitRiskIdle
    /\ InitAppIdle

NextCompliance ==
    \/ \E self \in Receivers, ra \in RiskAssessments : PerformComplianceCheck(self, ra)
    \/ \E d \in Demographics : SubmitDemographics(d)
    \/ \E checks \in CheckStatusInputs : CallEvaluateOverallCompliance(checks)

SpecCompliance == InitCompliance /\ [][NextCompliance]_vars

(***************************************************************************)
(* SpecMarket: the market service against a changing FRED answer.          *)
(***************************************************************************)
InitCompliancePassive ==
    /\ application = CHOOSE app \in SubmittedApplications : TRUE
    /\ watchLists = EmptyWatchLists
    /\ InitComplianceAgent

InitMarket ==
    /\ fred \in FredAnswers
    /\ treasuryResult = NoResult
    /\ yieldsResult = NoResult
    /\ marketLoad = IdleLoad
    /\ InitCompliancePassive
    /\ InitRiskIdle
    /\ InitAppIdle

NextMarket ==
    \/ \E answer \in FredAnswers : FredChanges(answer)
    \/ FetchTreasuryRates
    \/ FetchCurrentYields

SpecMarket == InitMarket /\ [][NextMarket]_vars

(***************************************************************************)
(* SpecScoring: the scoring functions and the models' predict called in    *)
(* any order while initializeModels is still calibrating.                  *)
(***************************************************************************)
ScoringLoanApplications ==
    { MakeLoanApplication(40000, 1000, collateral, profile) :
        collateral \in { <<>>, <<[collateralValue |-> 250000, collateralType |-> "real_estate"]>> },
        profile \in Profiles }

InitScoring ==
    /\ loanApplication \in ScoringLoanApplications
    /\ baseScores = CHOOSE scores \in BaseScoreSets : TRUE
    /\ InitCreditRiskAgent
    /\ InitCompliancePassive
    /\ InitMarketIdle
    /\ InitAppIdle

NextScoring ==
    \/ InitializeModelsStep
    \/ \E m \in PredictingModels : CallPredict(m)
    \/ \E i \in 1..MaxCalls + 1 : ResumePredict(i)
    \/ \E fn \in ScoringFunctions \ PredictingModels : CallScore(fn)
    \/ \E industryPerformance \in MarketFactors :
           CalculateComprehensiveRiskScores(industryPerformance, Rat(1, 2))

SpecScoring == InitScoring /\ [][NextScoring]_vars

(***************************************************************************)
(* SpecRiskScores: calculateComprehensiveRiskScores on every application.  *)
(***************************************************************************)
InitRiskScores ==
    /\ loanApplication \in LoanApplications
    /\ baseScores = CHOOSE scores \in BaseScoreSets : TRUE
    /\ InitCreditRiskAgent
    /\ InitCompliancePassive
    /\ InitMarketIdle
    /\ InitAppIdle

NextRiskScores ==
    \/ InitializeModelsStep
    \/ \E industryPerformance, regionalEconomics \in MarketFactors :
           CalculateComprehensiveRiskScores(industryPerformance, regionalEconomics)

SpecRiskScores == InitRiskScores /\ [][NextRiskScores]_vars

(***************************************************************************)
(* SpecStress: applyStressScenario on every base score set.                *)
(***************************************************************************)
InitStress ==
    /\ loanApplication = CHOOSE app \in LoanApplications : TRUE
    /\ baseScores \in BaseScoreSets
    /\ InitCreditRiskAgent
    /\ InitCompliancePassive
    /\ InitMarketIdle
    /\ InitAppIdle

NextStress ==
    \E scenario \in DOMAIN economicScenarios,
       pdMultiplier, lgdMultiplier, eadMultiplier \in StressMultipliers :
        ApplyStressScenario(scenario, pdMultiplier, lgdMultiplier, eadMultiplier)

SpecStress == InitStress /\ [][NextStress]_vars

(***************************************************************************)
(* Spec: the two agents and the market service in one program.             *)
(***************************************************************************)
ProgramFredAnswers ==
    { [apiKey |-> k, ok |-> TRUE, parsable |-> TRUE, observations |-> << <<523>> >>] :
        k \in BOOLEAN }

Init ==
    /\ loanApplication = CHOOSE app \in LoanApplications : TRUE
    /\ baseScores = CHOOSE scores \in BaseScoreSets : TRUE
    /\ InitCreditRiskAgent
    /\ InitCompliancePassive
    /\ fred \in ProgramFredAnswers
    /\ treasuryResult = NoResult
    /\ yieldsResult = NoResult
    /\ marketLoad = IdleLoad
    /\ InitAppIdle

Next ==
    \/ InitializeModelsStep
    \/ \E m \in PredictingModels : CallPredict(m)
    \/ \E i \in 1..MaxCalls + 1 : ResumePredict(i)
    \/ AssessCreditRisk
    \/ \E self \in Receivers : PerformComplianceCheck(self, <<>>)
    \/ LoadMarketData
    \/ \E f \in Fetches : FetchSettles(f)
    \/ LoadMarketDataReturns

Spec == Init /\ [][Next]_vars

(***************************************************************************)
(* SpecDemo: the AuraDemo component and its panel, started on a simulated  *)
(* portfolio (as the source initialises it) and on a connected one.        *)
(***************************************************************************)
InitDemo ==
    /\ portfolioState \in { [InitialPortfolioState EXCEPT !.isSimulated = simulated] :
                              simulated \in BOOLEAN }
    /\ aiRecommendations = <<>>
    /\ executions = <<>>
    /\ panel = [loading |-> FALSE, analysis |-> "null", engineCalls |-> 0]
    /\ engineCall = <<>>
    /\ InitCompliancePassive
    /\ InitMarketIdle
    /\ InitRiskIdle

NextDemo ==
    \/ \E recommendation \in DemoRecommendations : HandleAIRecommendation(recommendation)
    \/ \E i \in 1..MaxRecommendations + 1 : ExecutionTimerFires(i)
    \/ \E analysis \in {"result", "null"} : RunAIAnalysis(analysis)

SpecDemo == InitDemo /\ [][NextDemo]_vars

(***************************************************************************)
(* SpecDecision: makeIntelligentDecision on present and missing inputs,    *)
(* with every outcome of the optimizer, the forecaster and the risk        *)
(* engine.                                                                 *)
(***************************************************************************)
InitDecision ==
    /\ InitAppIdle
    /\ InitCompliancePassive
    /\ InitMarketIdle
    /\ InitRiskIdle

NextDecision ==
    \E marketData \in {<<>>, <<[yields |-> "yields"]>>},
       state \in {<<>>, <<InitialPortfolioState>>},
       optimizer \in OptimizerOutcomes,
       forecaster \in ForecasterOutcomes,
       riskEngine \in RiskEngineOutcomes :
        MakeIntelligentDecision(marketData, state, optimizer, forecaster, riskEngine)

SpecDecision == InitDecision /\ [][NextDecision]_vars

(***************************************************************************)
(* SpecOptimizer: the SmartCashOptimizer on every set of accounts, with    *)
(* and without an emergency reserve.                                       *)
(***************************************************************************)
InitOptimizer ==
    /\ engineCall \in
           { <<[fn |-> "optimizeAllocation",
                args |-> [accounts |-> accounts, totalCash |-> totalCash,
                          emergencyReserve |-> emergencyReserve]]>> :
               accounts \in AccountSets, totalCash \in {100, 250},
               emergencyReserve \in {0, 100, 200} }
    /\ InitDemoIdle
    /\ InitCompliancePassive
    /\ InitMarketIdle
    /\ InitRiskIdle

NextOptimizer == OptimizeAllocation

SpecOptimizer == InitOptimizer /\ [][NextOptimizer]_vars

(***************************************************************************)
(* SpecConsolidate: consolidateRecommendations on every combination of     *)
(* recommendations of the three sources.                                   *)
(***************************************************************************)
InitConsolidate ==
    /\ engineCall \in
           { <<[fn |-> "consolidateRecommendations",
                args |-> [optimization |-> [rebalanceActions |-> actions],
                          forecast |-> [recommendations |-> forecast],
                          riskAssessment |-> [recommendations |-> risk]]]>> :
               actions \in RebalanceActionLists,
               forecast \in ForecastRecommendationLists,
               risk \in RiskRecommendationLists }
    /\ InitDemoIdle
    /\ InitCompliancePassive
    /\ InitMarketIdle
    /\ InitRiskIdle

NextConsolidate == ConsolidateRecommendations

SpecConsolidate == InitConsolidate /\ [][NextConsolidate]_vars

(***************************************************************************)
(* Properties of the compliance checks.                                    *)
(***************************************************************************)
ReturnedChecks == { i \in DOMAIN checkHistory : ~checkHistory[i].outcome.thrown }

DifferOnlyInDemographics(a, b) ==
    /\ a.demographics # b.demographics
    /\ [a EXCEPT !.demographics = b.demographics] = b

\* What a compliance check decides: everything but the protectedClasses list.
ComplianceDecision(check) ==
    [biasRisk |-> check.checks.fairLending.biasRisk,
     fairLendingStatus |-> check.checks.fairLending.status,
     overallStatus |-> check.overallStatus,
     recommendations |-> check.recommendations]

OverallStatusRule(checks) ==
    IF \E c \in DOMAIN checks : checks[c].status \in {"FAIL", "VIOLATION"}
    THEN "NON_COMPLIANT"
    ELSE IF \E c \in DOMAIN checks : checks[c].status \in {"REVIEW_REQUIRED", "WARNING"}
    THEN "REVIEW_REQUIRED"
    ELSE "COMPLIANT"

KycCalled == lastCall.fn = "performKYCCheck"

VerificationsHeld(app) ==
    Cardinality({ v \in {"ssn", "address", "income", "employment"} :
        \/ v = "ssn" /\ app.personalInfo.ssn
        \/ v = "address" /\ app.personalInfo.address # <<>> /\ app.personalInfo.addressVerified
        \/ v = "income" /\ app.incomeVerified /\ app.incomeDocuments
        \/ v = "employment" /\ app.employmentVerified })

\* C6: performKYCCheck scores 25 points for each of the four verifications
\* that holds, sets status PASS when score >= 75, CONDITIONAL when
\* 50 <= score < 75 and FAIL when score < 50, and every verification adds one
\* entry to requirements or to issues.
C6_KYCScore ==
    KycCalled =>
        LET kyc == lastCall.outcome.value
        IN  /\ kyc.score = 25 * VerificationsHeld(application)
            /\ kyc.status = (IF kyc.score >= 75 THEN "PASS"
                             ELSE IF kyc.score >= 50 THEN "CONDITIONAL"
                             ELSE "FAIL")
            /\ kyc.score = 25 * Len(kyc.requirements)
            /\ Len(kyc.requirements) + Len(kyc.issues) = 4

\* A KYC check that scored exactly 75, with one issue.
C6_Witness ==
    /\ KycCalled
    /\ lastCall.outcome.value.score = 75
    /\ lastCall.outcome.value.status = "PASS"
    /\ Len(lastCall.outcome.value.issues) = 1

AmlReturned == lastCall.fn = "performAMLCheck" /\ ~lastCall.outcome.thrown

ListHasMatch(list) ==
    \E i \in DOMAIN list : ToLowerCase(list[i].name) = FullName(application.personalInfo)

\* C7: performAMLCheck returns FAIL exactly when the sanctions screening has a
\* match, otherwise REVIEW_REQUIRED exactly when there is a PEP match or a
\* suspicious transaction pattern, otherwise PASS; never PENDING.
C7_AMLStatus ==
    AmlReturned =>
        LET aml == lastCall.outcome.value
            sanctioned == ListHasMatch(watchLists.sanctions)
            review == \/ ListHasMatch(watchLists.pep)
                      \/ /\ aml.screeningResults.transactionPattern # <<>>
                         /\ aml.screeningResults.transactionPattern[1].suspicious
        IN  /\ (aml.status = "FAIL") <=> sanctioned
            /\ (aml.status = "REVIEW_REQUIRED") <=> (~sanctioned /\ review)
            /\ (aml.status = "PASS") <=> (~sanctioned /\ ~review)
            /\ aml.requiresManualReview <=> (sanctioned \/ review)
            /\ aml.status # "PENDING"

\* An AML check of an applicant on the PEP list who only resembles a
\* sanctioned name.
C7_Witness ==
    /\ AmlReturned
    /\ lastCall.outcome.value.status = "REVIEW_REQUIRED"
    /\ Len(lastCall.outcome.value.screeningResults.pep.matches) > 0
    /\ Len(lastCall.outcome.value.screeningResults.sanctions.fuzzyMatches) > 0


(***************************************************************************)
(* Properties of the market service.                                       *)
(***************************************************************************)
YieldsCalculated == yieldsResult # NoResult

\* C10: fetchCurrentYields calculates the yields from the Treasury rate r that
\* fetchTreasuryRates returned: Treasury MMF = r + 0.15, CD 3-Month = r + 0.25,
\* CD 6-Month = r + 0.35, Money Market = max(r - 0.25, 4.0), High Yield
\* Savings = max(r - 0.45, 3.8) and Checking = 0.1.
C10_YieldsFromTreasuryRate ==
    YieldsCalculated =>
        LET r == yieldsResult[1].treasury.rate
            y == yieldsResult[1].yields
        IN  /\ y.TreasuryMMF.rate = r + 15
            /\ y.CD3Month.rate = r + 25
            /\ y.CD6Month.rate = r + 35
            /\ y.MoneyMarket.rate = Max2(r - 25, 400)
            /\ y.HighYieldSavings.rate = Max2(r - 45, 380)
            /\ y.Checking.rate = 10

\* The failures of a fetch: no API key configured, a non-OK HTTP response, an
\* unparsable body, no observation, a first observation that is no number.
TreasuryFailure(answer) ==
    \/ ~answer.apiKey
    \/ ~answer.ok
    \/ ~answer.parsable
    \/ answer.observations = <<>>
    \/ answer.observations[1] = <<>>

\* C11: fetchTreasuryRates never rejects: every call resolves to an object
\* {rate, isFallback}; on any failure it is the fallback rate 5.2 with
\* isFallback true, and isFallback is false only when the rate was parsed from
\* the first FRED observation.
C11_TreasuryRatesNeverReject ==
    [][\/ treasuryResult' = treasuryResult
       \/ LET result == treasuryResult'[1]
          IN  /\ DOMAIN result = {"rate", "isFallback"}
              /\ TreasuryFailure(fred) => result = [rate |-> 520, isFallback |-> TRUE]
              /\ ~result.isFallback =>
                    /\ ~TreasuryFailure(fred)
                    /\ result.rate = fred.observations[1][1]]_vars

\* A fetch answered with two observations, the first of which is no number,
\* has resolved to the fallback.
C11_Witness ==
    /\ fred.apiKey /\ fred.ok /\ fred.parsable
    /\ Len(fred.observations) = 2
    /\ fred.observations[1] = <<>>
    /\ fred.observations[2] # <<>>
    /\ treasuryResult = <<[rate |-> 520, isFallback |-> TRUE]>>

(***************************************************************************)
(* Properties of the CreditRiskAgent and its models.                       *)
(***************************************************************************)
IsPrefix(s, t) == Len(s) <= Len(t) /\ SubSeq(t, 1, Len(s)) = s

\* A step that makes a call of an agent or of a model.
AgentCallStep == calls' # calls /\ marketLoad' = marketLoad

\* C1 as claimed: a credit-risk assessment, a model prediction or a
\* compliance check leaves every field of the agents and of the models
\* unchanged.
C1_NoSharedMutableState ==
    [][AgentCallStep =>
         UNCHANGED <<agentFields, models, auditTrail, compAuditTrail, watchLists>>]_vars

\* C1, amended: every step leaves the agents' other fields unchanged, only
\* appends to the two audit trails, at most one entry to the CreditRiskAgent's,
\* and changes a model only by calibrating one that was not calibrated.
C1_CallsOnlyLogAndCalibrate ==
    [][/\ agentFields' = agentFields
       /\ watchLists' = watchLists
       /\ IsPrefix(auditTrail, auditTrail')
       /\ Len(auditTrail') <= Len(auditTrail) + 1
       /\ IsPrefix(compAuditTrail, compAuditTrail')
       /\ \A m \in ModelNames :
            \/ models'[m] = models[m]
            \/ ~models[m].isCalibrated /\ models'[m].isCalibrated]_vars

\* assessCreditRisk has logged its entry, and eadModel.predict has
\* calibrated eadModel before initializeModels reached it.
C1_Witness ==
    /\ auditTrail = <<"RISK_ASSESSMENT_FAILED">>
    /\ modelsInit = "pdModel"
    /\ models["eadModel"].isCalibrated

Outcomes(fn) == returned[fn]

\* C2: for the same loan application every scoring function and every
\* model's predict has had one and the same outcome on all its calls,
\* whatever was called before and whether or not the model was calibrated
\* when predict was called.
C2_Deterministic == \A fn \in ScoringFunctions : Cardinality(Outcomes(fn)) <= 1

\* pdModel.predict was called twice and has answered both times, the first
\* time on the uncalibrated model: initializeModels has not reached pdModel.
C2_Witness ==
    /\ calls = 2
    /\ predictions = <<>>
    /\ riskScores = <<>>
    /\ modelsInit = "pdModel"
    /\ models["pdModel"].isCalibrated
    /\ Outcomes("pdModel") # {}
    /\ \A fn \in ScoringFunctions \ {"pdModel"} : Outcomes(fn) = {}

\* The asynchronous operations in flight: initializeModels, the suspended
\* predictions and the pending fetches.
InFlight ==
    (IF modelsInit = "done" THEN 0 ELSE 1) + Len(predictions)
        + Cardinality({ f \in Fetches : marketLoad[f] = "pending" })

\* C3 as claimed: at no reachable state are two asynchronous operations in
\* flight at the same time.
C3_NoConcurrency == InFlight <= 1

InitOrder == <<"creditScoreModel", "pdModel", "lgdModel", "eadModel", "correlationModel">>

\* The models initializeModels has calibrated when it is at position pos.
InitializedAt(pos) ==
    CASE pos = "pdModel" -> 1
      [] pos = "lgdModel" -> 2
      [] pos = "eadModel" -> 3
      [] pos = "correlationModel" -> 4
      [] pos \in {"logAction", "done"} -> 5

\* C3, amended: loadMarketData returns only when the three fetches it
\* started have all settled; initializeModels has calibrated the models in
\* order up to its position, and MODELS_INITIALIZED is logged only when it is
\* done and all five models are calibrated.
C3_OrderedCompletion ==
    /\ marketLoad.load = "done" => \A f \in Fetches : marketLoad[f] = "done"
    /\ \A i \in 1..InitializedAt(modelsInit) : models[InitOrder[i]].isCalibrated
    /\ (\E k \in DOMAIN auditTrail : auditTrail[k] = "MODELS_INITIALIZED")
         => modelsInit = "done" /\ \A m \in ModelNames : models[m].isCalibrated

\* loadMarketData has returned while initializeModels and a prediction are
\* still in flight.
C3_Witness ==
    /\ marketLoad.load = "done"
    /\ modelsInit # "done"
    /\ predictions # <<>>

ScoresComputed == riskScores # <<>>

Components == {"creditScore", "financialStability", "behavioral", "collateral", "marketConditions"}

WeightedSum(s) ==
    RAdd(RAdd(RAdd(RAdd(RMul(Rat(30, 100), s.creditScore),
                        RMul(Rat(25, 100), s.financialStability)),
                   RMul(Rat(20, 100), s.behavioral)),
              RMul(Rat(15, 100), s.collateral)),
         RMul(Rat(10, 100), s.marketConditions))

\* C8: the overall score of calculateComprehensiveRiskScores is
\* 0.30 creditScore + 0.25 financialStability + 0.20 behavioral
\* + 0.15 collateral + 0.10 marketConditions, the weights sum to 1, and the
\* overall score is at least the smallest and at most the largest of the
\* five component scores.
C8_OverallWeightedSum ==
    ScoresComputed =>
        LET s == riskScores[1].scores
        IN  /\ s.overall = WeightedSum(s)
            /\ 30 + 25 + 20 + 15 + 10 = 100
            /\ \E c \in Components : RLe(s[c], s.overall)
            /\ \E c \in Components : RLe(s.overall, s[c])

\* The same for the applications whose financial stability score is a number.
OverallWeightedSumOfNumbers ==
    (ScoresComputed /\ ~IsNaN(riskScores[1].scores.financialStability))
        => C8_OverallWeightedSum

StressApplied == stressResult # <<>>

C12_NoExecutionOnSimulatedData ==
    [][portfolioState.isSimulated =>
         /\ portfolioState'.currentAllocation = portfolioState.currentAllocation
         /\ \/ aiRecommendations' = aiRecommendations
            \/ /\ Len(aiRecommendations') = Len(aiRecommendations) + 1
               /\ SubSeq(aiRecommendations', 1, Len(aiRecommendations)) = aiRecommendations
               /\ aiRecommendations'[Len(aiRecommendations')].status = "SKIPPED"
         /\ executions' = <<>>
         /\ panel'.engineCalls = panel.engineCalls]_vars

\* Two recommendations, a rebalancing among them, were handed over on a
\* simulated portfolio.
C12_Witness ==
    /\ portfolioState.isSimulated
    /\ Len(aiRecommendations) = 2
    /\ \E i \in 1..2 : aiRecommendations[i].type = "REBALANCE"
    /\ \A i \in 1..2 : aiRecommendations[i].status = "SKIPPED"
    /\ portfolioState.currentAllocation = InitialPortfolioState.currentAllocation

(***************************************************************************)
(* Properties of the DecisionEngine.                                       *)
(***************************************************************************)
DecisionMade == engineCall # <<>> /\ engineCall[1].fn = "makeIntelligentDecision"

\* C13: makeIntelligentDecision never throws.  When marketData or
\* portfolioState is missing it returns the fallback decision (confidence 0.3,
\* one MAINTAIN_STATUS recommendation of priority LOW, empty executionPlan);
\* when the inputs are present, a failure of the optimizer, the forecaster or
\* the risk engine is replaced by that component's default result and the
\* decision is still produced from the three results.
C13_DecisionNeverThrows ==
    DecisionMade =>
        LET args == engineCall[1].args
            decision == engineCall[1].result
        IN  /\ DOMAIN decision = {"confidence", "recommendations", "analysis", "executionPlan"}
            /\ (args.marketData = <<>> \/ args.portfolioState = <<>>) =>
                  /\ decision.confidence = Rat(3, 10)
                  /\ Len(decision.recommendations) = 1
                  /\ decision.recommendations[1].type = "MAINTAIN_STATUS"
                  /\ decision.recommendations[1].priority = "LOW"
                  /\ decision.executionPlan = <<>>
            /\ (args.marketData # <<>> /\ args.portfolioState # <<>>) =>
                  /\ decision.analysis # <<>>
                  /\ decision.analysis[1].optimization =
                         IF args.optimizer.thrown
                         THEN [rebalanceActions |-> <<>>, confidence |-> Rat(3, 10)]
                         ELSE args.optimizer.value
                  /\ decision.analysis[1].forecast =
                         IF args.forecaster.thrown
                         THEN [predictions |-> <<>>, recommendations |-> <<>>]
                         ELSE args.forecaster.value
                  /\ decision.analysis[1].riskAssessment =
                         IF args.riskEngine.thrown
                         THEN [overallRisk |-> Rat(1, 2), recommendations |-> <<>>]
                         ELSE args.riskEngine.value
                  /\ \A i \in DOMAIN decision.recommendations :
                         decision.recommendations[i].type # "MAINTAIN_STATUS"

\* The optimizer alone failed and a decision with the forecaster's and the
\* risk engine's recommendations was produced.
C13_Witness ==
    /\ DecisionMade
    /\ engineCall[1].args.marketData # <<>>
    /\ engineCall[1].args.portfolioState # <<>>
    /\ engineCall[1].args.optimizer.thrown
    /\ ~engineCall[1].args.forecaster.thrown
    /\ ~engineCall[1].args.riskEngine.thrown
    /\ Len(engineCall[1].result.recommendations) = 3
    /\ engineCall[1].result.analysis[1].optimization.confidence = Rat(3, 10)

(***************************************************************************)
(* Properties of the SmartCashOptimizer.                                   *)
(***************************************************************************)
Optimized ==
    /\ engineCall # <<>>
    /\ engineCall[1].fn = "optimizeAllocation"
    /\ "result" \in DOMAIN engineCall[1]

RECURSIVE SumOver(_, _)
\* The sum of the amounts the allocation holds in the given account types.
SumOver(allocation, types) ==
    IF types = {} THEN RInt(0)
    ELSE LET type == CHOOSE t \in types : TRUE
         IN  RAdd(allocation[type], SumOver(allocation, types \ {type}))

LiquidAmount(allocation) ==
    SumOver(allocation, { t \in DOMAIN allocation : isHighLiquidity(t) })

IlliquidAmount(allocation) ==
    SumOver(allocation, { t \in DOMAIN allocation : ~isHighLiquidity(t) })

\* C14: the optimal allocation places at most 60% of totalCash in less liquid
\* accounts, i.e. accounts other than Checking, Money Market and Treasury MMF.
C14_IlliquidAtMostSixtyPercent ==
    Optimized =>
        RLe(IlliquidAmount(engineCall[1].result), engineCall[1].constraints.maxIlliquid)

\* C15: whenever at least one high-liquidity account is offered, the returned
\* allocation holds at least minLiquid = max(15% of totalCash,
\* emergencyReserve) in high-liquidity accounts.
C15_LiquidityRequirementMet ==
    (Optimized /\ \E i \in DOMAIN engineCall[1].accountScores :
                      isHighLiquidity(engineCall[1].accountScores[i][1])) =>
        RLe(engineCall[1].constraints.minLiquid, LiquidAmount(engineCall[1].result))

\* What does hold of the liquid part: it reaches the requirement whenever
\* the requirement is at most 40% of totalCash.
LiquidityMetUpToFortyPercent ==
    (Optimized /\ \E i \in DOMAIN engineCall[1].accountScores :
                      isHighLiquidity(engineCall[1].accountScores[i][1])) =>
        RLe(RMin(engineCall[1].constraints.minLiquid,
                 RMul(RInt(engineCall[1].args.totalCash), Rat(4, 10))),
            LiquidAmount(engineCall[1].result))

\* C16: solveOptimization allocates all the cash: every amount of the
\* returned allocation is >= 0 and the amounts sum to totalCash.
C16_AllCashAllocated ==
    Optimized =>
        LET allocation == engineCall[1].result
        IN  /\ \A t \in DOMAIN allocation : RLe(RInt(0), allocation[t])
            /\ SumOver(allocation, DOMAIN allocation) = RInt(engineCall[1].args.totalCash)

\* Cash was left after steps 1 and 2 although three accounts were offered,
\* and went to the best-scoring high-liquidity account.
C16_Witness ==
    /\ Optimized
    /\ Len(engineCall[1].accountScores) = 3
    /\ engineCall[1].args.totalCash = 250
    /\ engineCall[1].result =
           [t \in {"Checking", "CD 3-Month", "CD 6-Month"} |->
               CASE t = "Checking" -> RInt(190)
                 [] t = "CD 3-Month" -> RInt(10)
                 [] t = "CD 6-Month" -> RInt(50)]

Consolidated ==
    /\ engineCall # <<>>
    /\ engineCall[1].fn = "consolidateRecommendations"
    /\ "result" \in DOMAIN engineCall[1]

\* The recommendations handed in, whatever their source.
RecommendationsGiven ==
    LET args == engineCall[1].args
    IN  { [type |-> r.type, action |-> r.action, priority |-> r.priority] :
            r \in { args.forecast.recommendations[i] :
                      i \in DOMAIN args.forecast.recommendations }
                  \cup { args.riskAssessment.recommendations[i] :
                           i \in DOMAIN args.riskAssessment.recommendations } }
        \cup { [type |-> "REBALANCE", action |-> <<a.action, a.account, a.amount>>,
                priority |-> a.priority] :
                 a \in { args.optimization.rebalanceActions[i] :
                           i \in DOMAIN args.optimization.rebalanceActions } }

\* HIGH is above MEDIUM, MEDIUM above everything else.
AtLeastAsUrgent(p, q) ==
    \/ p = "HIGH"
    \/ p = "MEDIUM" /\ q # "HIGH"
    \/ q \notin {"HIGH", "MEDIUM"}

\* C17: consolidateRecommendations returns the top 5 recommendations: the
\* result has at most 5 entries, no two entries share the same (type, action)
\* pair, HIGH entries come before MEDIUM ones and those before LOW ones, and
\* a recommendation is left out only if at least 5 recommendations of equal
\* or higher priority are kept.
C17_TopFiveRecommendations ==
    Consolidated =>
        LET result == engineCall[1].result
        IN  /\ Len(result) <= 5
            /\ \A i, j \in DOMAIN result :
                   (result[i].type = result[j].type /\ result[i].action = result[j].action)
                       => i = j
            /\ \A i, j \in DOMAIN result :
                   i < j => AtLeastAsUrgent(result[i].priority, result[j].priority)
            /\ \A given \in RecommendationsGiven :
                   \/ \E i \in DOMAIN result :
                          result[i].type = given.type /\ result[i].action = given.action
                   \/ Cardinality({ i \in DOMAIN result :
                                      AtLeastAsUrgent(result[i].priority, given.priority) }) >= 5

\* Nine different recommendations were given, the risk engine's
\* INCREASE_LIQUIDITY one twice; the five kept are the HIGH and MEDIUM ones,
\* each once, and the LOW one and the rebalance actions are left out.
C17_Witness ==
    /\ Consolidated
    /\ Cardinality(RecommendationsGiven) = 9
    /\ Len(engineCall[1].args.riskAssessment.recommendations) = 4
    /\ engineCall[1].args.riskAssessment.recommendations[2]
           = engineCall[1].args.riskAssessment.recommendations[3]
    /\ Len(engineCall[1].result) = 5
    /\ \A i \in 1..5 : engineCall[1].result[i].priority \in {"HIGH", "MEDIUM"}
    /\ \E given \in RecommendationsGiven : given.priority = "LOW"
    /\ engineCall[1].result[1].source = "FORECASTER"
=============================================================================
